---------------------------- MODULE Spec2Model ----------------------------
(***************************************************************************)
(* A model of leveldb's POSIX environment (util/env_posix.cc):             *)
(*   - the background scheduler: PosixEnv::Schedule and PosixEnv::BGThread *)
(*     over mu_, bgsignal_, started_bgthread_ and queue_;                  *)
(*   - the advisory file lock: PosixEnv::LockFile / UnlockFile over        *)
(*     PosixLockTable and fcntl(F_SETLK) record locks;                     *)
(*   - the random-access files: PosixEnv::NewRandomAccessFile, the two     *)
(*     Limiters, PosixMmapReadableFile and PosixRandomAccessFile;          *)
(*   - PosixWritableFile::Sync and SyncDirIfManifest;                      *)
(* and of the block reader (table/block.cc): Block::Block,                 *)
(* Block::NewIterator and Block::Iter.                                     *)
(* Each subsystem has its own specification; the variables of the other    *)
(* subsystems stay unchanged under it.                                     *)
(***************************************************************************)
EXTENDS Integers, Sequences, FiniteSets

(***************************************************************************)
(* Bounds of the model.                                                    *)
(***************************************************************************)
\* threads that call Schedule from outside the background thread
NumProducers == 2
\* thread slots pthread_create can fill with a BGThread
MaxBG == 2
\* Schedule calls made in one behaviour
MaxItems == 3

\* descriptors a process can have open at once (open fails with EMFILE
\* beyond that)
MaxFd == 2

\* threads that open, read and destroy random-access files
NumReaders == 2
\* mmap_limit_'s initial allowance (MaxMmaps(), scaled down)
MmapLimit == 1
\* fd_limit_'s initial allowance (MaxOpenFiles(), scaled down)
FdLimit == 1
\* RandomAccessFile objects alive at once
MaxRaf == 3
\* width in bits of uint64_t / size_t / off_t, scaled down
WordBits == 3
\* bytes appended to one writable file
MaxBytes == 2
\* entries in a block
MaxEntries == 3
\* zero bytes before the restart count of a block made of zeros
MaxEdgeZeros == 8
\* the restart count of a block made of zeros
MaxEdgeCount == 3
\* good entries before the damaged entry of a block
MaxGood == 2

Producers == 1..NumProducers
Workers == (NumProducers + 1)..(NumProducers + MaxBG)
SThreads == Producers \cup Workers
Items == 1..MaxItems

VARIABLES
  \* ---- PosixEnv scheduler state (env_posix.cc 614-623)
  mu_,                 \* pthread_mutex_t mu_: the owning thread, 0 when free
  started_bgthread_,   \* bool started_bgthread_
  queue_,              \* BGQueue queue_: the queued items, front first
  spc,                 \* each thread's position inside Schedule
  sitem,               \* the (function, arg) a thread's Schedule call carries
  bpc,                 \* each background thread's position inside BGThread
  cur,                 \* BGThread's locals function/arg: the item taken
  \* ---- history of the scheduler, read by the properties only
  nextItem,            \* the next Schedule call's item
  inserted,            \* items in the order of their push_back
  started,             \* items in the order BGThread invoked them
  finished,            \* items in the order their invocation returned
  invoked,             \* how many times each item was invoked
  returned,            \* items whose Schedule call has returned
  retBefore            \* per item: the items whose Schedule had returned
                       \* when its own Schedule call began
VARIABLES
  \* ---- PosixEnv lock state and the kernel's, per process
  locked_files_,       \* PosixLockTable::locked_files_ of each process
  fdtab,               \* each process's open descriptors: fd -> file, or NoFile
  oslock,              \* per file: the process owning the fcntl write lock, or NoProc
  handles,             \* each process's live PosixFileLock objects
  lpc,                 \* each thread's position inside LockFile / UnlockFile
  lfd,                 \* the call's local fd (LockFile) or my_lock->fd_ (UnlockFile)
  lname,               \* the call's fname (LockFile) or my_lock->name_ (UnlockFile)
  lres,                \* the call's Status result
  llock,               \* LockFile's *lock
  \* ---- history of the lock calls, read by the properties only
  lholder,             \* whether fname had a holder in the process when
                       \* Insert(fname) refused it
  lround               \* the latest call boundary: <<"unlocked", p, name>>
                       \* once an UnlockFile of process p returned,
                       \* <<"relock", t>> while thread t's LockFile on that
                       \* name, entered right after it, is the latest call

VARIABLES
  \* ---- random-access files (env_posix.cc 46-233, 382-411)
  allowed_,            \* Limiter::allowed_ of mmap_limit_ and of fd_limit_
  raf,                 \* the RandomAccessFile objects, by slot
  rfdtab,              \* the process's open descriptors: fd -> file, or NoFile
  rth                  \* each thread's call in progress and its locals

VARIABLES
  \* ---- the writable file (env_posix.cc 236-317)
  wfile,               \* the PosixWritableFile: filename_ and file_
  wbuf,                \* bytes in file_'s stdio buffer
  wkern,               \* bytes written to the kernel, not yet on disk
  wdisk,               \* bytes on disk
  wcall                \* the Sync call in progress and its locals

VARIABLES
  \* ---- the block reader (table/block.cc)
  block,               \* the Block: data_, size_, restart_offset_
  iter,                \* the iterator NewIterator returned
  \* ---- history of the iterator, read by the properties only
  trail                \* the entries visited since the last SeekToFirst
                       \* (by Next) or SeekToLast (by Prev)

schedVars == <<mu_, started_bgthread_, queue_, spc, sitem, bpc, cur,
               nextItem, inserted, started, finished, invoked, returned,
               retBefore>>

lockVars == <<locked_files_, fdtab, oslock, handles, lpc, lfd, lname, lres,
              llock, lholder, lround>>

rafVars == <<allowed_, raf, rfdtab, rth>>

syncVars == <<wfile, wbuf, wkern, wdisk, wcall>>

VARIABLES
  \* ---- internal keys (db/dbformat.h)
  ikey,                \* an InternalKey's rep_, or the Slice handed to
                       \* ParseInternalKey
  parsed,              \* ParseInternalKey's return value and *result
  bench,               \* three internal keys and what
                       \* InternalKeyComparator::Compare says of them
  \* ---- history of ikey, read by the properties only
  ksrc                 \* the ParsedInternalKey ikey was encoded from

blockVars == <<block, iter, trail>>

keyVars == <<ikey, parsed, bench, ksrc>>

vars == <<schedVars, lockVars, rafVars, syncVars, blockVars, keyVars>>

\* What each subsystem's steps leave alone.
notSchedVars == <<lockVars, rafVars, syncVars, blockVars, keyVars>>

notLockVars == <<schedVars, rafVars, syncVars, blockVars, keyVars>>

notRafVars == <<schedVars, lockVars, syncVars, blockVars, keyVars>>

notSyncVars == <<schedVars, lockVars, rafVars, blockVars, keyVars>>

notBlockVars == <<schedVars, lockVars, rafVars, syncVars, keyVars>>

notKeyVars == <<schedVars, lockVars, rafVars, syncVars, blockVars>>

Range(s) == {s[k] : k \in 1..Len(s)}

IsPrefix(s, t) == Len(s) <= Len(t) /\ \A k \in 1..Len(s) : s[k] = t[k]

(***************************************************************************)
(* PosixEnv::PosixEnv: started_bgthread_(false), an empty queue, a free    *)
(* mutex, no background thread.                                            *)
(***************************************************************************)
SchedInit ==
  /\ mu_ = 0
  /\ started_bgthread_ = FALSE
  /\ queue_ = <<>>
  /\ spc = [t \in SThreads |-> "idle"]
  /\ sitem = [t \in SThreads |-> 0]
  /\ bpc = [w \in Workers |-> "none"]
  /\ cur = [w \in Workers |-> 0]
  /\ nextItem = 1
  /\ inserted = <<>>
  /\ started = <<>>
  /\ finished = <<>>
  /\ invoked = [i \in Items |-> 0]
  /\ returned = {}
  /\ retBefore = [i \in Items |-> {}]

schedHist == <<inserted, started, finished, invoked, returned, retBefore>>

(***************************************************************************)
(* PosixEnv::Schedule, one action per statement.                           *)
(***************************************************************************)
\* A thread enters Schedule(function, arg).  A background thread does so
\* only from inside the callable it is running.
SchedCall(t) ==
  /\ spc[t] = "idle"
  /\ t \in Workers => bpc[t] = "run"
  /\ nextItem <= MaxItems
  /\ spc' = [spc EXCEPT ![t] = "lock"]
  /\ sitem' = [sitem EXCEPT ![t] = nextItem]
  /\ nextItem' = nextItem + 1
  /\ retBefore' = [retBefore EXCEPT ![nextItem] = returned]
  /\ UNCHANGED <<mu_, started_bgthread_, queue_, bpc, cur, inserted, started,
                 finished, invoked, returned>>
  /\ UNCHANGED notSchedVars

\* pthread_mutex_lock(&mu_)
SchedLock(t) ==
  /\ spc[t] = "lock"
  /\ mu_ = 0
  /\ mu_' = t
  /\ spc' = [spc EXCEPT ![t] = "create"]
  /\ UNCHANGED <<started_bgthread_, queue_, sitem, bpc, cur, nextItem>>
  /\ UNCHANGED schedHist
  /\ UNCHANGED notSchedVars

\* pthread_create(&bgthread_, NULL, &PosixEnv::BGThreadWrapper, this): the
\* new thread starts at the top of BGThread's loop.
PthreadCreate ==
  IF \E w \in Workers : bpc[w] = "none"
    THEN LET w == CHOOSE v \in Workers :
                    /\ bpc[v] = "none"
                    /\ \A u \in Workers : bpc[u] = "none" => v <= u
         IN  [bpc EXCEPT ![w] = "lock"]
    ELSE bpc

\* if (!started_bgthread_) { started_bgthread_ = true; pthread_create(...); }
SchedCreate_NoFlag(t) ==
  /\ spc[t] = "create"
  /\ bpc' = PthreadCreate
  /\ spc' = [spc EXCEPT ![t] = "signal"]
  /\ UNCHANGED <<mu_, started_bgthread_, queue_, sitem, cur, nextItem>>
  /\ UNCHANGED schedHist
  /\ UNCHANGED notSchedVars

SchedCreate(t) ==
  /\ spc[t] = "create"
  /\ IF ~started_bgthread_
       THEN /\ started_bgthread_' = TRUE
            /\ bpc' = PthreadCreate
       ELSE UNCHANGED <<started_bgthread_, bpc>>
  /\ spc' = [spc EXCEPT ![t] = "signal"]
  /\ UNCHANGED <<mu_, queue_, sitem, cur, nextItem>>
  /\ UNCHANGED schedHist
  /\ UNCHANGED notSchedVars

\* pthread_cond_signal(&bgsignal_): wakes one thread blocked in
\* pthread_cond_wait, if there is one; the woken thread must take mu_ again
\* before its wait returns.
CondSignal ==
  IF \E w \in Workers : bpc[w] = "wait"
    THEN \E w \in Workers :
           /\ bpc[w] = "wait"
           /\ bpc' = [bpc EXCEPT ![w] = "woken"]
    ELSE UNCHANGED bpc

\* if (queue_.empty()) pthread_cond_signal(&bgsignal_);
SchedSignal_Never(t) ==
  /\ spc[t] = "signal"
  /\ spc' = [spc EXCEPT ![t] = "push"]
  /\ UNCHANGED <<mu_, started_bgthread_, queue_, sitem, bpc, cur, nextItem>>
  /\ UNCHANGED schedHist
  /\ UNCHANGED notSchedVars

SchedSignal(t) ==
  /\ spc[t] = "signal"
  /\ IF queue_ = <<>> THEN CondSignal ELSE UNCHANGED bpc
  /\ spc' = [spc EXCEPT ![t] = "push"]
  /\ UNCHANGED <<mu_, started_bgthread_, queue_, sitem, cur, nextItem>>
  /\ UNCHANGED schedHist
  /\ UNCHANGED notSchedVars

\* queue_.push_back(BGItem()); queue_.back().function = ...; .arg = ...;
SchedPush_Front(t) ==
  /\ spc[t] = "push"
  /\ queue_' = <<sitem[t]>> \o queue_
  /\ inserted' = Append(inserted, sitem[t])
  /\ spc' = [spc EXCEPT ![t] = "unlock"]
  /\ UNCHANGED <<mu_, started_bgthread_, sitem, bpc, cur, nextItem, started,
                 finished, invoked, returned, retBefore>>
  /\ UNCHANGED notSchedVars

SchedPush(t) ==
  /\ spc[t] = "push"
  /\ queue_' = Append(queue_, sitem[t])
  /\ inserted' = Append(inserted, sitem[t])
  /\ spc' = [spc EXCEPT ![t] = "unlock"]
  /\ UNCHANGED <<mu_, started_bgthread_, sitem, bpc, cur, nextItem, started,
                 finished, invoked, returned, retBefore>>
  /\ UNCHANGED notSchedVars

\* pthread_mutex_unlock(&mu_); Schedule returns.
SchedUnlock(t) ==
  /\ spc[t] = "unlock"
  /\ mu_' = 0
  /\ spc' = [spc EXCEPT ![t] = "idle"]
  /\ returned' = returned \cup {sitem[t]}
  /\ sitem' = [sitem EXCEPT ![t] = 0]
  /\ UNCHANGED <<started_bgthread_, queue_, bpc, cur, nextItem, inserted,
                 started, finished, invoked, retBefore>>
  /\ UNCHANGED notSchedVars

(***************************************************************************)
(* PosixEnv::BGThread, one action per statement of its loop.               *)
(***************************************************************************)
\* pthread_mutex_lock(&mu_)
BGLock(w) ==
  /\ bpc[w] = "lock"
  /\ mu_ = 0
  /\ mu_' = w
  /\ bpc' = [bpc EXCEPT ![w] = "check"]
  /\ UNCHANGED <<started_bgthread_, queue_, spc, sitem, cur, nextItem>>
  /\ UNCHANGED schedHist
  /\ UNCHANGED notSchedVars

\* while (queue_.empty()) pthread_cond_wait(&bgsignal_, &mu_);
\* entering the wait releases mu_ and blocks in one atomic step.
BGCheck(w) ==
  /\ bpc[w] = "check"
  /\ IF queue_ = <<>>
       THEN /\ mu_' = 0
            /\ bpc' = [bpc EXCEPT ![w] = "wait"]
       ELSE /\ bpc' = [bpc EXCEPT ![w] = "pop"]
            /\ UNCHANGED mu_
  /\ UNCHANGED <<started_bgthread_, queue_, spc, sitem, cur, nextItem>>
  /\ UNCHANGED schedHist
  /\ UNCHANGED notSchedVars

\* pthread_cond_wait may return without a signal (a spurious wake-up).
BGSpurious(w) ==
  /\ bpc[w] = "wait"
  /\ bpc' = [bpc EXCEPT ![w] = "woken"]
  /\ UNCHANGED <<mu_, started_bgthread_, queue_, spc, sitem, cur, nextItem>>
  /\ UNCHANGED schedHist
  /\ UNCHANGED notSchedVars

\* pthread_cond_wait returns once the woken thread owns mu_ again.
BGWake(w) ==
  /\ bpc[w] = "woken"
  /\ mu_ = 0
  /\ mu_' = w
  /\ bpc' = [bpc EXCEPT ![w] = "check"]
  /\ UNCHANGED <<started_bgthread_, queue_, spc, sitem, cur, nextItem>>
  /\ UNCHANGED schedHist
  /\ UNCHANGED notSchedVars

\* function = queue_.front().function; arg = queue_.front().arg;
\* queue_.pop_front();
BGPop_NoPop(w) ==
  /\ bpc[w] = "pop"
  /\ cur' = [cur EXCEPT ![w] = Head(queue_)]
  /\ bpc' = [bpc EXCEPT ![w] = "unlock"]
  /\ UNCHANGED <<mu_, started_bgthread_, queue_, spc, sitem, nextItem>>
  /\ UNCHANGED schedHist
  /\ UNCHANGED notSchedVars

BGPop_Back(w) ==
  /\ bpc[w] = "pop"
  /\ cur' = [cur EXCEPT ![w] = queue_[Len(queue_)]]
  /\ queue_' = SubSeq(queue_, 1, Len(queue_) - 1)
  /\ bpc' = [bpc EXCEPT ![w] = "unlock"]
  /\ UNCHANGED <<mu_, started_bgthread_, spc, sitem, nextItem>>
  /\ UNCHANGED schedHist
  /\ UNCHANGED notSchedVars

BGPop(w) ==
  /\ bpc[w] = "pop"
  /\ cur' = [cur EXCEPT ![w] = Head(queue_)]
  /\ queue_' = Tail(queue_)
  /\ bpc' = [bpc EXCEPT ![w] = "unlock"]
  /\ UNCHANGED <<mu_, started_bgthread_, spc, sitem, nextItem>>
  /\ UNCHANGED schedHist
  /\ UNCHANGED notSchedVars

\* pthread_mutex_unlock(&mu_)
BGUnlock_Keep(w) ==
  /\ bpc[w] = "unlock"
  /\ bpc' = [bpc EXCEPT ![w] = "call"]
  /\ UNCHANGED <<mu_, started_bgthread_, queue_, spc, sitem, cur, nextItem>>
  /\ UNCHANGED schedHist
  /\ UNCHANGED notSchedVars

BGUnlock(w) ==
  /\ bpc[w] = "unlock"
  /\ mu_' = 0
  /\ bpc' = [bpc EXCEPT ![w] = "call"]
  /\ UNCHANGED <<started_bgthread_, queue_, spc, sitem, cur, nextItem>>
  /\ UNCHANGED schedHist
  /\ UNCHANGED notSchedVars

\* (*function)(arg): the callable starts.
BGCall(w) ==
  /\ bpc[w] = "call"
  /\ bpc' = [bpc EXCEPT ![w] = "run"]
  /\ started' = Append(started, cur[w])
  /\ invoked' = [invoked EXCEPT ![cur[w]] = @ + 1]
  /\ UNCHANGED <<mu_, started_bgthread_, queue_, spc, sitem, cur, nextItem,
                 inserted, finished, returned, retBefore>>
  /\ UNCHANGED notSchedVars

\* The callable returns (any Schedule call it made has returned) and the
\* loop starts over.
BGReturn(w) ==
  /\ bpc[w] = "run"
  /\ spc[w] = "idle"
  /\ bpc' = [bpc EXCEPT ![w] = "lock"]
  /\ finished' = Append(finished, cur[w])
  /\ cur' = [cur EXCEPT ![w] = 0]
  /\ UNCHANGED <<mu_, started_bgthread_, queue_, spc, sitem, nextItem,
                 inserted, started, invoked, returned, retBefore>>
  /\ UNCHANGED notSchedVars

\* The steps of a Schedule call after it was entered.
ScheduleStep(t) ==
  \/ SchedLock(t)
  \/ SchedCreate(t)
  \/ SchedSignal(t)
  \/ SchedPush(t)
  \/ SchedUnlock(t)

\* The steps of the background thread that the thread itself takes.
BGThread(w) ==
  \/ BGLock(w)
  \/ BGCheck(w)
  \/ BGWake(w)
  \/ BGPop(w)
  \/ BGUnlock(w)
  \/ BGCall(w)
  \/ BGReturn(w)

SchedNext ==
  \/ \E t \in SThreads : SchedCall(t)
  \/ \E t \in SThreads : ScheduleStep(t)
  \/ \E w \in Workers : BGThread(w)
  \/ \E w \in Workers : BGSpurious(w)

(***************************************************************************)
(* The advisory file lock.  Several processes, each with its own PosixEnv, *)
(* name files by path strings; two path strings may name one file.         *)
(***************************************************************************)
\* Process A runs two threads, process B one; a thread is <<process, index>>.
Procs == {"A", "B"}
LThreads == {<<"A", 1>>, <<"A", 2>>, <<"B", 1>>}
ProcOf(t) == t[1]
Fds == 1..MaxFd

\* Two path strings that name one file, the database's lock file.
Paths == {"db/LOCK", "./db/LOCK"}
Files == {"inode1"}
FileOf(path) == "inode1"

NoProc == "none"

NoFile == "nofile"
NoPath == "nopath"
NoFd == -1
\* *lock = NULL
NULL == [fd_ |-> NoFd, name_ |-> NoPath]

lockHist == <<lholder, lround>>

LockInit ==
  /\ locked_files_ = [p \in Procs |-> {}]
  /\ fdtab = [p \in Procs |-> [fd \in Fds |-> NoFile]]
  /\ oslock = [f \in Files |-> NoProc]
  /\ handles = [p \in Procs |-> {}]
  /\ lpc = [t \in LThreads |-> "idle"]
  /\ lfd = [t \in LThreads |-> NoFd]
  /\ lname = [t \in LThreads |-> NoPath]
  /\ lres = [t \in LThreads |-> "OK"]
  /\ llock = [t \in LThreads |-> NULL]
  /\ lholder = [t \in LThreads |-> FALSE]
  /\ lround = <<"none">>

\* open(2): the lowest free descriptor of the process, NoFd when none is
\* free (EMFILE).
OpenFd(p) ==
  IF \E fd \in Fds : fdtab[p][fd] = NoFile
    THEN CHOOSE fd \in Fds :
           /\ fdtab[p][fd] = NoFile
           /\ \A g \in Fds : fdtab[p][g] = NoFile => fd <= g
    ELSE NoFd

\* close(2) on a descriptor of process p.  fcntl record locks belong to the
\* process and the file: closing ANY descriptor of the file drops every
\* lock the process holds on it (fcntl(2), POSIX.1).
CloseFd(p, fd) ==
  /\ fdtab' = [fdtab EXCEPT ![p][fd] = NoFile]
  /\ oslock' = [f \in Files |->
                  IF f = fdtab[p][fd] /\ oslock[f] = p THEN NoProc ELSE oslock[f]]

\* PosixLockTable::Insert(fname): locked_files_.insert(fname).second
Insert(p, fname) == fname \notin locked_files_[p]

\* LockOrUnlock(fd, true): fcntl(fd, F_SETLK, F_WRLCK) is refused at once
\* (-1) when another process owns a lock on the file, and granted otherwise,
\* also when the calling process owns one already.
LockGranted(p, fd) == oslock[fdtab[p][fd]] \in {NoProc, p}

(***************************************************************************)
(* PosixEnv::LockFile, one action per statement.                           *)
(***************************************************************************)
\* entry: *lock = NULL; Status result;
\* int fd = open(fname, O_RDWR | O_CREAT, 0644);
\* if (fd < 0) result = IOError(fname, errno);
LockOpen(t, fname) ==
  /\ lpc[t] = "idle"
  /\ lname' = [lname EXCEPT ![t] = fname]
  /\ llock' = [llock EXCEPT ![t] = NULL]
  /\ LET p == ProcOf(t)
         fd == OpenFd(p)
     IN  IF fd = NoFd
           THEN /\ lres' = [lres EXCEPT ![t] = "IOError_open"]
                /\ lpc' = [lpc EXCEPT ![t] = "ret"]
                /\ UNCHANGED <<fdtab, lfd>>
           ELSE /\ fdtab' = [fdtab EXCEPT ![p][fd] = FileOf(fname)]
                /\ lfd' = [lfd EXCEPT ![t] = fd]
                /\ lres' = [lres EXCEPT ![t] = "OK"]
                /\ lpc' = [lpc EXCEPT ![t] = "l_insert"]
  /\ lround' = IF lround = <<"unlocked", ProcOf(t), fname>>
                 THEN <<"relock", t>>
                 ELSE <<"none">>
  /\ UNCHANGED <<locked_files_, oslock, handles, lholder>>
  /\ UNCHANGED notLockVars

\* The holders of fname in process p other than thread t: a live handle, or
\* another call that has registered fname and not yet removed it.
OtherHolder(t, fname) ==
  \/ \E h \in handles[ProcOf(t)] : h.name_ = fname
  \/ \E u \in LThreads :
       /\ u # t
       /\ ProcOf(u) = ProcOf(t)
       /\ lname[u] = fname
       /\ lpc[u] \in {"l_fcntl", "l_close2", "l_remove", "u_remove"}

\* else if (!locks_.Insert(fname)) { ...
LockInsert_NoCheck(t) ==
  /\ lpc[t] = "l_insert"
  /\ locked_files_' = [locked_files_ EXCEPT ![ProcOf(t)] = @ \cup {lname[t]}]
  /\ lpc' = [lpc EXCEPT ![t] = "l_fcntl"]
  /\ UNCHANGED <<fdtab, oslock, handles, lfd, lname, lres, llock>>
  /\ UNCHANGED lockHist
  /\ UNCHANGED notLockVars

LockInsert(t) ==
  /\ lpc[t] = "l_insert"
  /\ LET p == ProcOf(t)
     IN  IF Insert(p, lname[t])
           THEN /\ locked_files_' = [locked_files_ EXCEPT ![p] = @ \cup {lname[t]}]
                /\ lpc' = [lpc EXCEPT ![t] = "l_fcntl"]
                /\ UNCHANGED lholder
           ELSE /\ lpc' = [lpc EXCEPT ![t] = "l_close1"]
                /\ lholder' = [lholder EXCEPT ![t] = OtherHolder(t, lname[t])]
                /\ UNCHANGED locked_files_
  /\ UNCHANGED <<fdtab, oslock, handles, lfd, lname, lres, llock, lround>>
  /\ UNCHANGED notLockVars

\* ... close(fd); result = Status::IOError("lock " + fname,
\*                                         "already held by process"); }
LockCloseHeld(t) ==
  /\ lpc[t] = "l_close1"
  /\ CloseFd(ProcOf(t), lfd[t])
  /\ lres' = [lres EXCEPT ![t] = "IOError_held"]
  /\ lpc' = [lpc EXCEPT ![t] = "ret"]
  /\ lfd' = [lfd EXCEPT ![t] = NoFd]
  /\ UNCHANGED <<locked_files_, handles, lname, llock>>
  /\ UNCHANGED lockHist
  /\ UNCHANGED notLockVars

\* else if (LockOrUnlock(fd, true) == -1) { result = IOError(...); ...
\* else { my_lock = new PosixFileLock; my_lock->fd_ = fd;
\*        my_lock->name_ = fname; *lock = my_lock; }
LockFcntl(t) ==
  /\ lpc[t] = "l_fcntl"
  /\ LET p == ProcOf(t)
         h == [fd_ |-> lfd[t], name_ |-> lname[t]]
     IN  IF LockGranted(p, lfd[t])
           THEN /\ oslock' = [oslock EXCEPT ![fdtab[p][lfd[t]]] = p]
                /\ handles' = [handles EXCEPT ![p] = @ \cup {h}]
                /\ llock' = [llock EXCEPT ![t] = h]
                /\ lpc' = [lpc EXCEPT ![t] = "ret"]
                /\ UNCHANGED lres
           ELSE /\ lres' = [lres EXCEPT ![t] = "IOError_lock"]
                /\ lpc' = [lpc EXCEPT ![t] = "l_close2"]
                /\ UNCHANGED <<oslock, handles, llock>>
  /\ UNCHANGED <<locked_files_, fdtab, lfd, lname>>
  /\ UNCHANGED lockHist
  /\ UNCHANGED notLockVars

\* ... close(fd); ...
LockCloseRefused(t) ==
  /\ lpc[t] = "l_close2"
  /\ CloseFd(ProcOf(t), lfd[t])
  /\ lpc' = [lpc EXCEPT ![t] = "l_remove"]
  /\ lfd' = [lfd EXCEPT ![t] = NoFd]
  /\ UNCHANGED <<locked_files_, handles, lname, lres, llock>>
  /\ UNCHANGED lockHist
  /\ UNCHANGED notLockVars

\* the refused OS lock, as an alternative: the name stays registered
LockRemove_Skip(t) ==
  /\ lpc[t] = "l_remove"
  /\ lpc' = [lpc EXCEPT ![t] = "ret"]
  /\ UNCHANGED <<locked_files_, fdtab, oslock, handles, lfd, lname, lres,
                 llock>>
  /\ UNCHANGED lockHist
  /\ UNCHANGED notLockVars

\* ... locks_.Remove(fname); }
LockRemove(t) ==
  /\ lpc[t] = "l_remove"
  /\ locked_files_' = [locked_files_ EXCEPT ![ProcOf(t)] = @ \ {lname[t]}]
  /\ lpc' = [lpc EXCEPT ![t] = "ret"]
  /\ UNCHANGED <<fdtab, oslock, handles, lfd, lname, lres, llock>>
  /\ UNCHANGED lockHist
  /\ UNCHANGED notLockVars

(***************************************************************************)
(* PosixEnv::UnlockFile, one action per statement.                         *)
(***************************************************************************)
\* entry: the caller passes a handle a successful LockFile returned and that
\* was not unlocked yet (env.h REQUIRES), and gives it up; a handle whose
\* LockFile call has not returned yet is not the caller's to pass.
\* if (LockOrUnlock(my_lock->fd_, false) == -1) result = IOError("unlock", errno);
\* fcntl(fd, F_SETLK, F_UNLCK) drops the process's lock on the file, or fails.
UnlockFcntl(t, h) ==
  /\ lpc[t] = "idle"
  /\ h \in handles[ProcOf(t)]
  /\ \A u \in LThreads : llock[u] # h
  /\ handles' = [handles EXCEPT ![ProcOf(t)] = @ \ {h}]
  /\ lfd' = [lfd EXCEPT ![t] = h.fd_]
  /\ lname' = [lname EXCEPT ![t] = h.name_]
  /\ LET p == ProcOf(t)
         f == fdtab[p][h.fd_]
     IN  \E ok \in BOOLEAN :
           IF ok
             THEN /\ oslock' = [oslock EXCEPT ![f] = IF @ = p THEN NoProc ELSE @]
                  /\ lres' = [lres EXCEPT ![t] = "OK"]
             ELSE /\ lres' = [lres EXCEPT ![t] = "IOError_unlock"]
                  /\ UNCHANGED oslock
  /\ lpc' = [lpc EXCEPT ![t] = "u_remove"]
  /\ lround' = <<"none">>
  /\ UNCHANGED <<locked_files_, fdtab, llock, lholder>>
  /\ UNCHANGED notLockVars

\* locks_.Remove(my_lock->name_);
UnlockRemove_Skip(t) ==
  /\ lpc[t] = "u_remove"
  /\ lpc' = [lpc EXCEPT ![t] = "u_close"]
  /\ UNCHANGED <<locked_files_, fdtab, oslock, handles, lfd, lname, lres, llock>>
  /\ UNCHANGED lockHist
  /\ UNCHANGED notLockVars

UnlockRemove(t) ==
  /\ lpc[t] = "u_remove"
  /\ locked_files_' = [locked_files_ EXCEPT ![ProcOf(t)] = @ \ {lname[t]}]
  /\ lpc' = [lpc EXCEPT ![t] = "u_close"]
  /\ UNCHANGED <<fdtab, oslock, handles, lfd, lname, lres, llock>>
  /\ UNCHANGED lockHist
  /\ UNCHANGED notLockVars

\* close(my_lock->fd_); delete my_lock;
UnlockClose(t) ==
  /\ lpc[t] = "u_close"
  /\ CloseFd(ProcOf(t), lfd[t])
  /\ lpc' = [lpc EXCEPT ![t] = "uret"]
  /\ lfd' = [lfd EXCEPT ![t] = NoFd]
  /\ UNCHANGED <<locked_files_, handles, lname, lres, llock>>
  /\ UNCHANGED lockHist
  /\ UNCHANGED notLockVars

\* The call's locals go out of scope when it returns.
ForgetLocals(t) ==
  /\ lfd' = [lfd EXCEPT ![t] = NoFd]
  /\ lname' = [lname EXCEPT ![t] = NoPath]
  /\ lres' = [lres EXCEPT ![t] = "OK"]
  /\ llock' = [llock EXCEPT ![t] = NULL]
  /\ lholder' = [lholder EXCEPT ![t] = FALSE]

\* return result; (LockFile)
LockReturn(t) ==
  /\ lpc[t] = "ret"
  /\ lpc' = [lpc EXCEPT ![t] = "idle"]
  /\ lround' = IF lround = <<"relock", t>> THEN <<"none">> ELSE lround
  /\ ForgetLocals(t)
  /\ UNCHANGED <<locked_files_, fdtab, oslock, handles>>
  /\ UNCHANGED notLockVars

\* return result; (UnlockFile)
UnlockReturn(t) ==
  /\ lpc[t] = "uret"
  /\ lpc' = [lpc EXCEPT ![t] = "idle"]
  /\ lround' = <<"unlocked", ProcOf(t), lname[t]>>
  /\ ForgetLocals(t)
  /\ UNCHANGED <<locked_files_, fdtab, oslock, handles>>
  /\ UNCHANGED notLockVars

LockNext ==
  \/ \E t \in LThreads, fname \in Paths : LockOpen(t, fname)
  \/ \E t \in LThreads : LockInsert(t)
  \/ \E t \in LThreads : LockCloseHeld(t)
  \/ \E t \in LThreads : LockFcntl(t)
  \/ \E t \in LThreads : LockCloseRefused(t)
  \/ \E t \in LThreads : LockRemove(t)
  \/ \E t \in LThreads : LockReturn(t)
  \/ \E t \in LThreads : \E h \in handles[ProcOf(t)] : UnlockFcntl(t, h)
  \/ \E t \in LThreads : UnlockRemove(t)
  \/ \E t \in LThreads : UnlockClose(t)
  \/ \E t \in LThreads : UnlockReturn(t)

(***************************************************************************)
(* Random-access files: Limiter, PosixRandomAccessFile,                    *)
(* PosixMmapReadableFile and PosixEnv::NewRandomAccessFile.                *)
(* One process; its threads open files, read them and destroy them.        *)
(***************************************************************************)
Readers == 1..NumReaders
RafSlots == 1..MaxRaf
\* uint64_t, size_t: the values 0 .. 2^WordBits - 1
WordMod == 2 ^ WordBits
Word == 0..(WordMod - 1)
\* MaxOpenFiles() is a fifth of RLIMIT_NOFILE: the descriptor table has room
\* for every long-lived descriptor and one descriptor per thread
RFds == 1..(FdLimit + NumReaders)
\* the files on disk and their bytes; any other name does not exist
FileData == [a |-> <<1, 2>>]
RNames == (DOMAIN FileData) \cup {"gone"}
\* the (offset, n) arguments of Read: the start of a file, its last byte,
\* the largest offset; one byte, or more than the file has left
ReadOffsets == {0, 1, WordMod - 1}
ReadSizes == {1, 3}
Limiters == {"mmap_limit_", "fd_limit_"}
\* no RandomAccessFile: *result = NULL
NoRaf == 0
FreeSlot == [kind |-> "free", filename_ |-> NoPath, fd_ |-> NoFd,
             temporary_fd_ |-> FALSE, length_ |-> 0]
\* Slice(): no bytes
EmptySlice == << >>
\* a thread outside every call
IdleReader == [pc |-> "idle", fname |-> NoPath, fd |-> NoFd, s |-> "OK",
               result |-> NoRaf, macq |-> "none", facq |-> "none",
               obj |-> NoRaf, offset |-> 0, n |-> 0, r |-> EmptySlice,
               lim |-> "none"]

\* PosixEnv::PosixEnv: mmap_limit_(MaxMmaps()), fd_limit_(MaxOpenFiles())
RafInit ==
  /\ allowed_ = [l \in Limiters |->
                   IF l = "mmap_limit_" THEN MmapLimit ELSE FdLimit]
  /\ raf = [k \in RafSlots |-> FreeSlot]
  /\ rfdtab = [fd \in RFds |-> NoFile]
  /\ rth = [t \in Readers |-> IdleReader]

\* open(fname, O_RDONLY): the lowest free descriptor, or -1 when the file
\* does not exist or the table is full
ROpen(fname) ==
  IF fname \in DOMAIN FileData /\ \E fd \in RFds : rfdtab[fd] = NoFile
  THEN CHOOSE fd \in RFds :
         /\ rfdtab[fd] = NoFile
         /\ \A g \in RFds : rfdtab[g] = NoFile => fd <= g
  ELSE NoFd

\* close(fd)
RClose(fd) ==
  [g \in RFds |-> IF g = fd THEN NoFile ELSE rfdtab[g]]

\* pread(fd, scratch, n, static_cast<off_t>(offset)): the bytes read, or
\* "fail" for r < 0 (a descriptor that is not open; an offset whose cast to
\* the signed off_t is negative)
Pread(fd, n, offset) ==
  IF fd \notin RFds \/ rfdtab[fd] = NoFile \/ offset >= WordMod \div 2
  THEN "fail"
  ELSE LET data == FileData[rfdtab[fd]]
           last == IF offset + n < Len(data) THEN offset + n ELSE Len(data)
       IN  SubSeq(data, offset + 1, last)

\* the object `new` makes: the lowest free slot
NewSlot ==
  CHOOSE k \in RafSlots :
    /\ raf[k].kind = "free"
    /\ \A j \in RafSlots : raf[j].kind = "free" => k <= j

\* a NewRandomAccessFile call that has not returned yet
InNew(t) == rth[t].pc \in {"m_acq1", "m_acq2", "map", "m_rel", "f_acq1",
                            "f_acq2", "f_close", "n_ret"}

\* a live object whose NewRandomAccessFile call has returned it
Published(k) ==
  /\ raf[k].kind # "free"
  /\ \A u \in Readers : ~(rth[u].pc = "n_ret" /\ rth[u].result = k)

\* Limiter::Acquire, first lines: if (GetAllowed() <= 0) return false;
AcquireFast(l) == allowed_[l] <= 0

\* Limiter::Acquire under mu_, as an alternative: no second look at x
AcquireLocked_NoRecheck(l) == TRUE

\* Limiter::Acquire under mu_: x = GetAllowed(); x <= 0 returns false
AcquireLocked(l) == allowed_[l] > 0

\* SetAllowed(x - 1)
LimiterTake(l) == [allowed_ EXCEPT ![l] = @ - 1]

\* Limiter::Release: SetAllowed(GetAllowed() + 1), under mu_
LimiterRelease(l) == [allowed_ EXCEPT ![l] = @ + 1]

(***************************************************************************)
(* PosixEnv::NewRandomAccessFile(fname, result)                            *)
(***************************************************************************)
\* *result = NULL; fd = open(fname, O_RDONLY); fd < 0 gives IOError
RafOpen(t, fname) ==
  /\ rth[t].pc = "idle"
  /\ Cardinality({k \in RafSlots : raf[k].kind # "free"})
       + Cardinality({u \in Readers : InNew(u) /\ rth[u].result = NoRaf})
       < MaxRaf
  /\ LET fd == ROpen(fname) IN
       IF fd = NoFd
       THEN /\ rth' = [rth EXCEPT ![t] = [IdleReader EXCEPT
                         !.pc = "n_ret", !.fname = fname,
                         !.s = "IOError"]]
            /\ UNCHANGED rfdtab
       ELSE /\ rth' = [rth EXCEPT ![t] = [IdleReader EXCEPT
                         !.pc = "m_acq1", !.fname = fname, !.fd = fd]]
            /\ rfdtab' = [rfdtab EXCEPT ![fd] = fname]
  /\ UNCHANGED <<allowed_, raf>>
  /\ UNCHANGED notRafVars

\* mmap_limit_.Acquire(), before the mutex
RafMmapAcquireFast(t) ==
  /\ rth[t].pc = "m_acq1"
  /\ rth' = [rth EXCEPT ![t] =
       IF AcquireFast("mmap_limit_")
       THEN [@ EXCEPT !.pc = "f_acq1", !.macq = "no"]
       ELSE [@ EXCEPT !.pc = "m_acq2"]]
  /\ UNCHANGED <<allowed_, raf, rfdtab>>
  /\ UNCHANGED notRafVars

\* mmap_limit_.Acquire(), under the limiter's mutex
RafMmapAcquire(t) ==
  /\ rth[t].pc = "m_acq2"
  /\ IF AcquireLocked("mmap_limit_")
     THEN /\ allowed_' = LimiterTake("mmap_limit_")
          /\ rth' = [rth EXCEPT ![t] = [@ EXCEPT !.pc = "map",
                                                  !.macq = "yes"]]
     ELSE /\ rth' = [rth EXCEPT ![t] = [@ EXCEPT !.pc = "f_acq1",
                                                  !.macq = "no"]]
          /\ UNCHANGED allowed_
  /\ UNCHANGED <<raf, rfdtab>>
  /\ UNCHANGED notRafVars

\* GetFileSize and mmap, either of which can fail, then close(fd).  On
\* success *result = new PosixMmapReadableFile(fname, base, size, limiter).
RafMap(t) ==
  /\ rth[t].pc = "map"
  /\ \E ok \in BOOLEAN :
       IF ok
       THEN /\ raf' = [raf EXCEPT ![NewSlot] =
                         [kind |-> "mmap", filename_ |-> rth[t].fname,
                          fd_ |-> NoFd, temporary_fd_ |-> FALSE,
                          length_ |-> Len(FileData[rth[t].fname])]]
            /\ rth' = [rth EXCEPT ![t] = [@ EXCEPT !.pc = "n_ret",
                         !.result = NewSlot, !.fd = NoFd]]
       ELSE /\ rth' = [rth EXCEPT ![t] = [@ EXCEPT !.pc = "m_rel",
                         !.s = "IOError", !.fd = NoFd]]
            /\ UNCHANGED raf
  /\ rfdtab' = RClose(rth[t].fd)
  /\ UNCHANGED allowed_
  /\ UNCHANGED notRafVars

\* the failed mmap attempt, as an alternative: the allowance is kept
RafMmapRelease_Skip(t) ==
  /\ rth[t].pc = "m_rel"
  /\ rth' = [rth EXCEPT ![t] = [@ EXCEPT !.pc = "n_ret"]]
  /\ UNCHANGED <<allowed_, raf, rfdtab>>
  /\ UNCHANGED notRafVars

\* if (!s.ok()) mmap_limit_.Release();
RafMmapRelease(t) ==
  /\ rth[t].pc = "m_rel"
  /\ allowed_' = LimiterRelease("mmap_limit_")
  /\ rth' = [rth EXCEPT ![t] = [@ EXCEPT !.pc = "n_ret"]]
  /\ UNCHANGED <<raf, rfdtab>>
  /\ UNCHANGED notRafVars

\* PosixRandomAccessFile's constructor: limiter->Acquire(), before the mutex
RafFdAcquireFast(t) ==
  /\ rth[t].pc = "f_acq1"
  /\ rth' = [rth EXCEPT ![t] =
       IF AcquireFast("fd_limit_")
       THEN [@ EXCEPT !.pc = "f_close", !.facq = "no"]
       ELSE [@ EXCEPT !.pc = "f_acq2"]]
  /\ UNCHANGED <<allowed_, raf, rfdtab>>
  /\ UNCHANGED notRafVars

\* limiter->Acquire() under the mutex; when it succeeds the object keeps fd_
\* and temporary_fd_ is false
RafFdAcquire(t) ==
  /\ rth[t].pc = "f_acq2"
  /\ IF AcquireLocked("fd_limit_")
     THEN /\ allowed_' = LimiterTake("fd_limit_")
          /\ raf' = [raf EXCEPT ![NewSlot] =
                       [kind |-> "posix", filename_ |-> rth[t].fname,
                        fd_ |-> rth[t].fd, temporary_fd_ |-> FALSE,
                        length_ |-> 0]]
          /\ rth' = [rth EXCEPT ![t] = [@ EXCEPT !.pc = "n_ret",
                       !.facq = "yes", !.result = NewSlot, !.fd = NoFd]]
     ELSE /\ rth' = [rth EXCEPT ![t] = [@ EXCEPT !.pc = "f_close",
                                                  !.facq = "no"]]
          /\ UNCHANGED <<allowed_, raf>>
  /\ UNCHANGED rfdtab
  /\ UNCHANGED notRafVars

\* the exhausted descriptor cap, as an alternative: the open is refused
RafFdClose_Refuse(t) ==
  /\ rth[t].pc = "f_close"
  /\ rfdtab' = RClose(rth[t].fd)
  /\ rth' = [rth EXCEPT ![t] = [@ EXCEPT !.pc = "n_ret", !.s = "IOError",
                                          !.fd = NoFd]]
  /\ UNCHANGED <<allowed_, raf>>
  /\ UNCHANGED notRafVars

\* temporary_fd_: close(fd_); fd_ = -1;
RafFdClose(t) ==
  /\ rth[t].pc = "f_close"
  /\ rfdtab' = RClose(rth[t].fd)
  /\ raf' = [raf EXCEPT ![NewSlot] =
               [kind |-> "posix", filename_ |-> rth[t].fname,
                fd_ |-> NoFd, temporary_fd_ |-> TRUE, length_ |-> 0]]
  /\ rth' = [rth EXCEPT ![t] = [@ EXCEPT !.pc = "n_ret",
               !.result = NewSlot, !.fd = NoFd]]
  /\ UNCHANGED allowed_
  /\ UNCHANGED notRafVars

\* return s; the caller now owns *result
RafReturn(t) ==
  /\ rth[t].pc = "n_ret"
  /\ rth' = [rth EXCEPT ![t] = IdleReader]
  /\ UNCHANGED <<allowed_, raf, rfdtab>>
  /\ UNCHANGED notRafVars

\* the next step of thread t's NewRandomAccessFile call
RafNewStep(t) ==
  \/ RafMmapAcquireFast(t)
  \/ RafMmapAcquire(t)
  \/ RafMap(t)
  \/ RafMmapRelease(t)
  \/ RafFdAcquireFast(t)
  \/ RafFdAcquire(t)
  \/ RafFdClose(t)
  \/ RafReturn(t)

(***************************************************************************)
(* RandomAccessFile::Read(offset, n, result, scratch)                      *)
(***************************************************************************)
\* offset + n in uint64_t arithmetic
OffsetPlusN(offset, n) == (offset + n) % WordMod

\* the bytes of Slice(mmapped_region_ + offset, n); a byte outside the
\* mapping [0, length_) is not a byte of the file
MmapSlice(k, offset, n) ==
  [i \in 1..n |->
     IF offset + i <= raf[k].length_
     THEN FileData[raf[k].filename_][offset + i]
     ELSE "unmapped"]

\* PosixMmapReadableFile::Read, whole
RafReadMmap(t, k, offset, n) ==
  /\ rth[t].pc = "idle"
  /\ Published(k)
  /\ raf[k].kind = "mmap"
  /\ rth' = [rth EXCEPT ![t] =
       IF OffsetPlusN(offset, n) > raf[k].length_
       THEN [IdleReader EXCEPT !.pc = "r_ret", !.obj = k,
                               !.offset = offset, !.n = n,
                               !.r = EmptySlice, !.s = "IOError"]
       ELSE [IdleReader EXCEPT !.pc = "r_ret", !.obj = k,
                               !.offset = offset, !.n = n,
                               !.r = MmapSlice(k, offset, n)]]
  /\ UNCHANGED <<allowed_, raf, rfdtab>>
  /\ UNCHANGED notRafVars

\* PosixRandomAccessFile::Read, temporary_fd_: fd = open(filename_);
\* fd < 0 returns IOError
RafReadOpen(t, k, offset, n) ==
  /\ rth[t].pc = "idle"
  /\ Published(k)
  /\ raf[k].kind = "posix"
  /\ raf[k].temporary_fd_
  /\ LET fd == ROpen(raf[k].filename_) IN
       IF fd = NoFd
       THEN /\ rth' = [rth EXCEPT ![t] = [IdleReader EXCEPT
                         !.pc = "r_ret", !.obj = k, !.offset = offset,
                         !.n = n, !.s = "IOError"]]
            /\ UNCHANGED rfdtab
       ELSE /\ rth' = [rth EXCEPT ![t] = [IdleReader EXCEPT
                         !.pc = "r_pread", !.obj = k, !.offset = offset,
                         !.n = n, !.fd = fd]]
            /\ rfdtab' = [rfdtab EXCEPT ![fd] = raf[k].filename_]
  /\ UNCHANGED <<allowed_, raf>>
  /\ UNCHANGED notRafVars

\* the offset a thread's pread uses, as an alternative: the offset of some
\* call in progress on the same object
PreadOffset_Shared(t) ==
  CHOOSE o \in Word :
    /\ \E u \in Readers : rth[u].obj = rth[t].obj /\ rth[u].offset = o
    /\ \A u \in Readers : rth[u].obj = rth[t].obj => o <= rth[u].offset

\* the offset a thread's pread uses: its own argument
PreadOffset(t) == rth[t].offset

\* r = pread(fd, scratch, n, offset); *result = Slice(scratch, r < 0 ? 0 : r);
\* r < 0 gives IOError
AfterPread(t, fd, next) ==
  LET r == Pread(fd, rth[t].n, PreadOffset(t)) IN
    IF r = "fail"
    THEN [rth[t] EXCEPT !.pc = next, !.r = EmptySlice, !.s = "IOError"]
    ELSE [rth[t] EXCEPT !.pc = next, !.r = r]

\* PosixRandomAccessFile::Read with the temporary descriptor: pread
RafReadPreadTemp(t) ==
  /\ rth[t].pc = "r_pread"
  /\ rth' = [rth EXCEPT ![t] = AfterPread(t, rth[t].fd, "r_close")]
  /\ UNCHANGED <<allowed_, raf, rfdtab>>
  /\ UNCHANGED notRafVars

\* close(fd) of the temporary descriptor
RafReadClose(t) ==
  /\ rth[t].pc = "r_close"
  /\ rfdtab' = RClose(rth[t].fd)
  /\ rth' = [rth EXCEPT ![t] = [@ EXCEPT !.pc = "r_ret"]]
  /\ UNCHANGED <<allowed_, raf>>
  /\ UNCHANGED notRafVars

\* PosixRandomAccessFile::Read on the long-lived fd_: int fd = fd_
RafReadFd(t, k, offset, n) ==
  /\ rth[t].pc = "idle"
  /\ Published(k)
  /\ raf[k].kind = "posix"
  /\ ~raf[k].temporary_fd_
  /\ rth' = [rth EXCEPT ![t] = [IdleReader EXCEPT
               !.pc = "r_fd", !.obj = k, !.offset = offset, !.n = n,
               !.fd = raf[k].fd_]]
  /\ UNCHANGED <<allowed_, raf, rfdtab>>
  /\ UNCHANGED notRafVars

\* pread on the long-lived descriptor; nothing to close
RafReadPreadFd(t) ==
  /\ rth[t].pc = "r_fd"
  /\ rth' = [rth EXCEPT ![t] = AfterPread(t, rth[t].fd, "r_ret")]
  /\ UNCHANGED <<allowed_, raf, rfdtab>>
  /\ UNCHANGED notRafVars

\* return s
RafReadReturn(t) ==
  /\ rth[t].pc = "r_ret"
  /\ rth' = [rth EXCEPT ![t] = IdleReader]
  /\ UNCHANGED <<allowed_, raf, rfdtab>>
  /\ UNCHANGED notRafVars

(***************************************************************************)
(* ~PosixMmapReadableFile and ~PosixRandomAccessFile.  The owner deletes   *)
(* an object no call is using.                                             *)
(***************************************************************************)
InUse(k) == \E u \in Readers : rth[u].obj = k

\* munmap(mmapped_region_, length_), or close(fd_) when !temporary_fd_
RafDelete(t, k) ==
  /\ rth[t].pc = "idle"
  /\ Published(k)
  /\ ~InUse(k)
  /\ raf' = [raf EXCEPT ![k] = FreeSlot]
  /\ rfdtab' = IF raf[k].kind = "posix" /\ ~raf[k].temporary_fd_
               THEN RClose(raf[k].fd_)
               ELSE rfdtab
  /\ rth' = [rth EXCEPT ![t] =
       IF raf[k].kind = "mmap"
       THEN [IdleReader EXCEPT !.pc = "d_rel", !.lim = "mmap_limit_"]
       ELSE IF ~raf[k].temporary_fd_
       THEN [IdleReader EXCEPT !.pc = "d_rel", !.lim = "fd_limit_"]
       ELSE IdleReader]
  /\ UNCHANGED allowed_
  /\ UNCHANGED notRafVars

\* limiter_->Release()
RafDeleteRelease(t) ==
  /\ rth[t].pc = "d_rel"
  /\ allowed_' = LimiterRelease(rth[t].lim)
  /\ rth' = [rth EXCEPT ![t] = IdleReader]
  /\ UNCHANGED <<raf, rfdtab>>
  /\ UNCHANGED notRafVars

RafNext ==
  \/ \E t \in Readers, fname \in RNames : RafOpen(t, fname)
  \/ \E t \in Readers : RafMmapAcquireFast(t)
  \/ \E t \in Readers : RafMmapAcquire(t)
  \/ \E t \in Readers : RafMap(t)
  \/ \E t \in Readers : RafMmapRelease(t)
  \/ \E t \in Readers : RafFdAcquireFast(t)
  \/ \E t \in Readers : RafFdAcquire(t)
  \/ \E t \in Readers : RafFdClose(t)
  \/ \E t \in Readers : RafReturn(t)
  \/ \E t \in Readers, k \in RafSlots, offset \in ReadOffsets,
       n \in ReadSizes :
       RafReadMmap(t, k, offset, n)
  \/ \E t \in Readers, k \in RafSlots, offset \in ReadOffsets,
       n \in ReadSizes :
       RafReadOpen(t, k, offset, n)
  \/ \E t \in Readers : RafReadPreadTemp(t)
  \/ \E t \in Readers : RafReadClose(t)
  \/ \E t \in Readers, k \in RafSlots, offset \in ReadOffsets,
       n \in ReadSizes :
       RafReadFd(t, k, offset, n)
  \/ \E t \in Readers : RafReadPreadFd(t)
  \/ \E t \in Readers : RafReadReturn(t)
  \/ \E t \in Readers, k \in RafSlots : RafDelete(t, k)
  \/ \E t \in Readers : RafDeleteRelease(t)

(***************************************************************************)
(* PosixWritableFile: Append, Sync, SyncDirIfManifest, Close.              *)
(* One writable file at a time.  A file name is the sequence of its        *)
(* characters.                                                             *)
(***************************************************************************)
Manifest == <<"M", "A", "N", "I", "F", "E", "S", "T">>
Slash == "/"
\* the files a caller opens for writing: the directory the caller means and
\* the name inside it; NoDir for a name given without a directory
NoDir == << >>
WritableNames ==
  { [dir |-> NoDir,                base |-> Manifest \o <<"-", "1">>],
    [dir |-> <<"d">>,              base |-> Manifest \o <<"-", "1">>],
    [dir |-> <<"d", Slash, "e">>,  base |-> Manifest],
    [dir |-> <<"d">>,              base |-> <<"M", "A", "N", "I", "F", "E", "S">>],
    [dir |-> Manifest,             base |-> <<"L", "O", "G">>],
    [dir |-> NoDir,                base |-> <<"L", "O", "G">>] }

\* the path string the caller passes as fname
PathOf(w) == IF w.dir = NoDir THEN w.base ELSE w.dir \o <<Slash>> \o w.base

\* the directories that exist, by the name open() is given
Dot == <<".">>
Dirs == {Dot} \cup {w.dir : w \in {v \in WritableNames : v.dir # NoDir}}

NoWritable == [filename_ |-> << >>, file_ |-> "NULL", name |-> "none"]
IdleSync == [pc |-> "idle", s |-> "OK", fd |-> NoDir,
             opened |-> {}, fsynced |-> {}, pending |-> 0]

SyncInit ==
  /\ wfile = NoWritable
  /\ wbuf = 0
  /\ wkern = 0
  /\ wdisk = 0
  /\ wcall = IdleSync

\* strrchr(f, '/'): the position of the last '/', 0 for NULL
StrRChr(f, c) ==
  IF \E i \in 1..Len(f) : f[i] = c
  THEN CHOOSE i \in 1..Len(f) :
         f[i] = c /\ \A j \in 1..Len(f) : f[j] = c => j <= i
  ELSE 0

\* Slice::starts_with
StartsWith(x, prefix) ==
  /\ Len(x) >= Len(prefix)
  /\ SubSeq(x, 1, Len(prefix)) = prefix

\* SyncDirIfManifest's dir: "." without a separator, else f[0, sep)
SyncDir(f) ==
  IF StrRChr(f, Slash) = 0 THEN Dot ELSE SubSeq(f, 1, StrRChr(f, Slash) - 1)

\* SyncDirIfManifest's basename: f without a separator, else sep + 1
SyncBasename(f) ==
  IF StrRChr(f, Slash) = 0 THEN f ELSE SubSeq(f, StrRChr(f, Slash) + 1, Len(f))

\* PosixEnv::NewWritableFile: fopen(fname, "w"), which can fail
NewWritableFile(w) ==
  /\ wfile = NoWritable
  /\ \E ok \in BOOLEAN :
       wfile' = IF ok
                THEN [filename_ |-> PathOf(w), file_ |-> "open", name |-> w]
                ELSE NoWritable
  /\ wbuf' = 0 /\ wkern' = 0 /\ wdisk' = 0
  /\ wcall' = IdleSync
  /\ UNCHANGED notSyncVars

\* Append: fwrite_unlocked puts one more byte into the stdio buffer
WritableAppend ==
  /\ wfile.file_ = "open"
  /\ wcall.pc = "idle"
  /\ wbuf + wkern + wdisk < MaxBytes
  /\ wbuf' = wbuf + 1
  /\ UNCHANGED <<wfile, wkern, wdisk, wcall>>
  /\ UNCHANGED notSyncVars

\* Sync begins with SyncDirIfManifest: for a MANIFEST basename, open(dir),
\* which can fail; otherwise s stays OK and Sync goes on to the flush
SyncDirOpen ==
  /\ wfile.file_ = "open"
  /\ wcall.pc = "idle"
  /\ LET f == wfile.filename_
         dir == SyncDir(f)
     IN  IF StartsWith(SyncBasename(f), Manifest)
         THEN \E ok \in BOOLEAN :
                wcall' = IF ok /\ dir \in Dirs
                         THEN [IdleSync EXCEPT !.pc = "dir_fsync", !.fd = dir,
                                 !.opened = {dir}, !.pending = wbuf + wkern]
                         ELSE [IdleSync EXCEPT !.pc = "s_ret",
                                 !.s = "IOError", !.pending = wbuf + wkern]
         ELSE wcall' = [IdleSync EXCEPT !.pc = "flush",
                                        !.pending = wbuf + wkern]
  /\ UNCHANGED <<wfile, wbuf, wkern, wdisk>>
  /\ UNCHANGED notSyncVars

\* fsync(fd) of the directory, as an alternative: its result is not looked at
SyncDirFsync_Unchecked ==
  /\ wcall.pc = "dir_fsync"
  /\ \E ok \in BOOLEAN :
       wcall' = IF ok
                THEN [wcall EXCEPT !.pc = "dir_close",
                                   !.fsynced = @ \cup {wcall.fd}]
                ELSE [wcall EXCEPT !.pc = "dir_close"]
  /\ UNCHANGED <<wfile, wbuf, wkern, wdisk>>
  /\ UNCHANGED notSyncVars

\* if (fsync(fd) < 0) s = IOError(dir, errno);
SyncDirFsync ==
  /\ wcall.pc = "dir_fsync"
  /\ \E ok \in BOOLEAN :
       wcall' = IF ok
                THEN [wcall EXCEPT !.pc = "dir_close",
                                   !.fsynced = @ \cup {wcall.fd}]
                ELSE [wcall EXCEPT !.pc = "dir_close", !.s = "IOError"]
  /\ UNCHANGED <<wfile, wbuf, wkern, wdisk>>
  /\ UNCHANGED notSyncVars

\* close(fd); return s; and in Sync: if (!s.ok()) return s;
SyncDirClose ==
  /\ wcall.pc = "dir_close"
  /\ wcall' = [wcall EXCEPT !.fd = NoDir,
                 !.pc = IF wcall.s = "OK" THEN "flush" ELSE "s_ret"]
  /\ UNCHANGED <<wfile, wbuf, wkern, wdisk>>
  /\ UNCHANGED notSyncVars

\* fflush_unlocked(file_): the buffer goes to the kernel, or the call fails
\* and fdatasync is not reached
SyncFlush ==
  /\ wcall.pc = "flush"
  /\ \E ok \in BOOLEAN :
       IF ok
       THEN /\ wkern' = wkern + wbuf
            /\ wbuf' = 0
            /\ wcall' = [wcall EXCEPT !.pc = "datasync"]
       ELSE /\ wcall' = [wcall EXCEPT !.pc = "s_ret", !.s = "IOError"]
            /\ UNCHANGED <<wbuf, wkern>>
  /\ UNCHANGED <<wfile, wdisk>>
  /\ UNCHANGED notSyncVars

\* fdatasync(fileno(file_)): the kernel's bytes reach the disk, or the call
\* fails
SyncDatasync ==
  /\ wcall.pc = "datasync"
  /\ \E ok \in BOOLEAN :
       IF ok
       THEN /\ wdisk' = wdisk + wkern
            /\ wkern' = 0
            /\ wcall' = [wcall EXCEPT !.pc = "s_ret"]
       ELSE /\ wcall' = [wcall EXCEPT !.pc = "s_ret", !.s = "IOError"]
            /\ UNCHANGED <<wdisk, wkern>>
  /\ UNCHANGED <<wfile, wbuf>>
  /\ UNCHANGED notSyncVars

\* return s
SyncReturn ==
  /\ wcall.pc = "s_ret"
  /\ wcall' = IdleSync
  /\ UNCHANGED <<wfile, wbuf, wkern, wdisk>>
  /\ UNCHANGED notSyncVars

\* Close (fclose flushes the buffer to the kernel) and the destructor
WritableClose ==
  /\ wfile.file_ = "open"
  /\ wcall.pc = "idle"
  /\ wfile' = NoWritable
  /\ wbuf' = 0 /\ wkern' = 0 /\ wdisk' = 0
  /\ UNCHANGED wcall
  /\ UNCHANGED notSyncVars

SyncNext ==
  \/ \E w \in WritableNames : NewWritableFile(w)
  \/ WritableAppend
  \/ SyncDirOpen
  \/ SyncDirFsync
  \/ SyncDirClose
  \/ SyncFlush
  \/ SyncDatasync
  \/ SyncReturn
  \/ WritableClose

(***************************************************************************)
(* Internal keys (db/dbformat.h).  A uint64_t is the sequence of its eight *)
(* bytes, the most significant first; a Slice or std::string is the        *)
(* sequence of its bytes.                                                   *)
(***************************************************************************)
\* the bytewise comparator's Compare(a, b): negative, zero or positive
RECURSIVE Compare(_, _)
Compare(a, b) ==
  IF a = << >> /\ b = << >> THEN 0
  ELSE IF a = << >> THEN -1
  ELSE IF b = << >> THEN 1
  ELSE IF Head(a) < Head(b) THEN -1
  ELSE IF Head(a) > Head(b) THEN 1
  ELSE Compare(Tail(a), Tail(b))

\* enum ValueType
kTypeDeletion == 0
kTypeValue == 1
\* kValueTypeForSeek, as an alternative: the lowest-numbered ValueType
kValueTypeForSeek_Lowest == kTypeDeletion
\* kValueTypeForSeek: the highest-numbered ValueType
kValueTypeForSeek == kTypeValue

\* the uint64_t of value n, for n < 2^16
U64(n) == <<0, 0, 0, 0, 0, 0, n \div 256, n % 256>>

\* kMaxSequenceNumber: (0x1ull << 56) - 1
kMaxSequenceNumber == <<0, 255, 255, 255, 255, 255, 255, 255>>

\* x << 8 in uint64_t: the top byte is shifted out
Shl8(x) == Tail(x) \o <<0>>

\* x >> 8 in uint64_t
Shr8(x) == <<0>> \o SubSeq(x, 1, 7)

\* a | b for two bytes
RECURSIVE ByteOr(_, _)
ByteOr(a, b) ==
  IF a = 0 THEN b
  ELSE IF b = 0 THEN a
  ELSE (IF a % 2 = 1 \/ b % 2 = 1 THEN 1 ELSE 0)
         + 2 * ByteOr(a \div 2, b \div 2)

\* a < b for two uint64_t
RECURSIVE U64Less(_, _)
U64Less(a, b) ==
  IF a = << >> THEN FALSE
  ELSE IF Head(a) # Head(b) THEN Head(a) < Head(b)
  ELSE U64Less(Tail(a), Tail(b))

\* the bytes of s in reverse order
Reverse(s) == [i \in 1..Len(s) |-> s[Len(s) + 1 - i]]

\* EncodeFixed64 / PutFixed64: the eight bytes, the least significant first
EncodeFixed64(x) == Reverse(x)

\* DecodeFixed64(data + off)
DecodeFixed64(data, off) == Reverse(SubSeq(data, off + 1, off + 8))

\* PackSequenceAndType(seq, t): (seq << 8) | t
PackSequenceAndType(seq, t) ==
  [Shl8(seq) EXCEPT ![8] = ByteOr(@, t)]

\* AppendInternalKey(result, key): result->append(key.user_key), then
\* PutFixed64(result, PackSequenceAndType(key.sequence, key.type))
AppendInternalKey(result, key) ==
  result \o key.user_key
    \o EncodeFixed64(PackSequenceAndType(key.sequence, key.type))

\* ParseInternalKey(internal_key, result), as an alternative: the sequence
\* number is the whole tag
ParseInternalKey_NoShift(internal_key, result) ==
  IF Len(internal_key) < 8
  THEN [ok |-> FALSE, result |-> result]
  ELSE [ok |-> DecodeFixed64(internal_key, Len(internal_key) - 8)[8]
                 <= kTypeValue,
        result |->
          [user_key |-> SubSeq(internal_key, 1, Len(internal_key) - 8),
           sequence |-> DecodeFixed64(internal_key, Len(internal_key) - 8),
           type |-> DecodeFixed64(internal_key, Len(internal_key) - 8)[8]]]

\* ParseInternalKey(internal_key, result), as an alternative: the type is
\* taken from the most significant byte of the tag
ParseInternalKey_TypeFromTop(internal_key, result) ==
  IF Len(internal_key) < 8
  THEN [ok |-> FALSE, result |-> result]
  ELSE [ok |-> DecodeFixed64(internal_key, Len(internal_key) - 8)[1]
                 <= kTypeValue,
        result |->
          [user_key |-> SubSeq(internal_key, 1, Len(internal_key) - 8),
           sequence |-> Shr8(DecodeFixed64(internal_key,
                                           Len(internal_key) - 8)),
           type |-> DecodeFixed64(internal_key, Len(internal_key) - 8)[1]]]

\* ParseInternalKey(internal_key, result): the value returned and *result
\* afterwards; for n < 8 *result is not written
ParseInternalKey(internal_key, result) ==
  IF Len(internal_key) < 8
  THEN [ok |-> FALSE, result |-> result]
  ELSE [ok |-> DecodeFixed64(internal_key, Len(internal_key) - 8)[8]
                 <= kTypeValue,
        result |->
          [user_key |-> SubSeq(internal_key, 1, Len(internal_key) - 8),
           sequence |-> Shr8(DecodeFixed64(internal_key,
                                           Len(internal_key) - 8)),
           type |-> DecodeFixed64(internal_key, Len(internal_key) - 8)[8]]]

\* ExtractUserKey(internal_key), as an alternative: the tag is left on
ExtractUserKey_Whole(internal_key) == internal_key

\* ExtractUserKey(internal_key)
ExtractUserKey(internal_key) ==
  SubSeq(internal_key, 1, Len(internal_key) - 8)

\* the second half of InternalKeyComparator::Compare: r is what the user
\* comparator said of the user keys, anum and bnum are the tags
CompareTags(r, anum, bnum) ==
  IF r # 0 THEN r
  ELSE IF U64Less(bnum, anum) THEN -1
  ELSE IF U64Less(anum, bnum) THEN 1
  ELSE 0

\* InternalKeyComparator::Compare(a, b) for two Slices: increasing user key
\* (by the bytewise user comparator), then decreasing tag
InternalKeyComparatorCompare(a, b) ==
  CompareTags(Compare(ExtractUserKey(a), ExtractUserKey(b)),
              DecodeFixed64(a, Len(a) - 8), DecodeFixed64(b, Len(b) - 8))

\* the user keys, sequence numbers (one of them 2^56, above
\* kMaxSequenceNumber) and value types keys are made of
UserKeys == {<< >>, <<97>>, <<97, 98>>, <<98>>}
SequenceNumbers ==
  {U64(0), U64(1), U64(3), U64(5), U64(256), kMaxSequenceNumber,
   <<1, 0, 0, 0, 0, 0, 0, 0>>}
ValueTypes == {kTypeDeletion, kTypeValue}
ParsedInternalKeys ==
  [user_key : UserKeys, sequence : SequenceNumbers, type : ValueTypes]

\* byte strings that were not made by AppendInternalKey: fewer than eight
\* bytes; eight bytes and more, with every kind of low tag byte
RawKeys ==
  {SubSeq(<<1, 1, 1, 1, 1, 1, 1>>, 1, n) : n \in 0..7}
    \cup {uk \o <<t, 7, 0, 0, 0, 0, 0, 9>> :
            uk \in {<< >>, <<97>>}, t \in {0, 1, 2, 128, 255}}

\* the keys the comparator is tried on
BenchKeys ==
  [user_key : {<<97>>, <<97, 98>>, <<98>>},
   sequence : {U64(1), U64(3), U64(5), kMaxSequenceNumber},
   type : ValueTypes]

\* no key yet: not a string of bytes
NoKey == <<-1>>
NoParsedKey == [user_key |-> << >>, sequence |-> U64(0), type |-> kTypeDeletion]
NotParsed == [ok |-> FALSE, result |-> NoParsedKey, done |-> FALSE]
NoBench == [set |-> FALSE]
NotEncoded == [encoded |-> FALSE, key |-> NoParsedKey]

KeyInit ==
  /\ ikey = NoKey
  /\ parsed = NotParsed
  /\ bench = NoBench
  /\ ksrc = NotEncoded

\* InternalKey(user_key, s, t): AppendInternalKey(&rep_, ...)
InternalKeyNew(k) ==
  /\ ikey' = AppendInternalKey(<< >>, k)
  /\ ksrc' = [encoded |-> TRUE, key |-> k]
  /\ parsed' = [parsed EXCEPT !.done = FALSE]
  /\ bench' = NoBench
  /\ UNCHANGED notKeyVars

\* InternalKey::DecodeFrom(s): rep_.assign(s.data(), s.size())
InternalKeyDecodeFrom(raw) ==
  /\ ikey' = raw
  /\ ksrc' = NotEncoded
  /\ parsed' = [parsed EXCEPT !.done = FALSE]
  /\ bench' = NoBench
  /\ UNCHANGED notKeyVars

\* ParseInternalKey(ikey, &result), result being what the last call left
KeyParse ==
  /\ ikey # NoKey
  /\ ~parsed.done
  /\ parsed' = [ok |-> ParseInternalKey(ikey, parsed.result).ok,
                result |-> ParseInternalKey(ikey, parsed.result).result,
                done |-> TRUE]
  /\ bench' = NoBench
  /\ UNCHANGED <<ikey, ksrc>>
  /\ UNCHANGED notKeyVars

\* Compare on the encodings of three keys, pair by pair, before any other
\* use of keys
KeyCompare ==
  /\ ikey = NoKey
  /\ parsed = NotParsed
  /\ ~bench.set
  /\ \E a \in BenchKeys, b \in BenchKeys, c \in BenchKeys :
       bench' =
         [set |-> TRUE, a |-> a, b |-> b, c |-> c,
          ab |-> InternalKeyComparatorCompare(AppendInternalKey(<< >>, a),
                                              AppendInternalKey(<< >>, b)),
          ba |-> InternalKeyComparatorCompare(AppendInternalKey(<< >>, b),
                                              AppendInternalKey(<< >>, a)),
          bc |-> InternalKeyComparatorCompare(AppendInternalKey(<< >>, b),
                                              AppendInternalKey(<< >>, c)),
          ac |-> InternalKeyComparatorCompare(AppendInternalKey(<< >>, a),
                                              AppendInternalKey(<< >>, c))]
  /\ ikey' = NoKey
  /\ ksrc' = NotEncoded
  /\ parsed' = NotParsed
  /\ UNCHANGED notKeyVars

KeyNext ==
  \/ \E k \in ParsedInternalKeys : InternalKeyNew(k)
  \/ \E raw \in RawKeys : InternalKeyDecodeFrom(raw)
  \/ KeyParse
  \/ KeyCompare

(***************************************************************************)
(* The block reader (table/block.cc).  A block is the sequence of its      *)
(* bytes; a position in it is an offset from data_, counted from 0.        *)
(***************************************************************************)
\* sizeof(uint32_t)
SizeofU32 == 4

\* a uint32_t as <<high 16 bits, low 16 bits>>
U32(n) == <<n \div 65536, n % 65536>>

\* the value of a uint32_t below 2^31
ToInt(u) == u[1] * 65536 + u[2]

\* a < b for two uint32_t
U32Less(a, b) == a[1] < b[1] \/ (a[1] = b[1] /\ a[2] < b[2])

\* a + b in uint32_t arithmetic: the carry out of bit 31 is dropped
U32Add(a, b) ==
  <<(a[1] + b[1] + ((a[2] + b[2]) \div 65536)) % 65536, (a[2] + b[2]) % 65536>>

\* EncodeFixed32: little-endian
EncodeFixed32(n) ==
  <<n % 256, (n \div 256) % 256, (n \div 65536) % 256, n \div 16777216>>

\* DecodeFixed32(data + off): little-endian; the blocks of the model keep
\* the top byte below 128
DecodeFixed32(data, off) ==
  data[off + 1] + 256 * data[off + 2] + 65536 * data[off + 3]
    + 16777216 * data[off + 4]

\* the length of the longest common prefix of two keys
RECURSIVE SharedPrefix(_, _)
SharedPrefix(a, b) ==
  IF a = << >> \/ b = << >> \/ Head(a) # Head(b)
  THEN 0
  ELSE 1 + SharedPrefix(Tail(a), Tail(b))

\* one entry as the block writer lays it out: the three lengths, the key's
\* suffix, the value
EntryBytes(prev, e, restart) ==
  LET shared == IF restart THEN 0 ELSE SharedPrefix(prev, e.key) IN
    <<shared, Len(e.key) - shared, Len(e.value)>>
      \o SubSeq(e.key, shared + 1, Len(e.key)) \o e.value

\* the entries area of a block: entries es, a restart point at every index
\* of R
RECURSIVE EntriesBytes(_, _, _, _)
EntriesBytes(es, R, i, prev) ==
  IF i > Len(es)
  THEN << >>
  ELSE EntryBytes(prev, es[i], i \in R) \o EntriesBytes(es, R, i + 1, es[i].key)

\* the offset of entry i of such a block
EntryOffset(es, R, i) == Len(EntriesBytes(SubSeq(es, 1, i - 1), R, 1, << >>))

\* the restart array: the offsets of the restart entries in increasing
\* order; a block without entries has the one restart offset 0
RECURSIVE RestartBytes(_, _, _)
RestartBytes(es, R, i) ==
  IF i > Len(es)
  THEN << >>
  ELSE (IF i \in R THEN EncodeFixed32(EntryOffset(es, R, i)) ELSE << >>)
         \o RestartBytes(es, R, i + 1)

\* a whole block as the block writer produces it
BuildBlock(es, R) ==
  IF es = << >>
  THEN EncodeFixed32(0) \o EncodeFixed32(1)
  ELSE EntriesBytes(es, R, 1, << >>) \o RestartBytes(es, R, 1)
         \o EncodeFixed32(Cardinality(R))

\* the (key, value) pairs blocks are written from, in key order
AllEntries ==
  << [key |-> <<97>>,         value |-> <<1>>],
     [key |-> <<97, 98>>,     value |-> << >>],
     [key |-> <<97, 98, 98>>, value |-> <<3, 3>>],
     [key |-> <<98>>,         value |-> <<4>>] >>

\* the members of a set of indices, in increasing order
RECURSIVE Sorted(_)
Sorted(S) ==
  IF S = {}
  THEN << >>
  ELSE LET lo == CHOOSE x \in S : \A y \in S : x <= y
       IN  <<lo>> \o Sorted(S \ {lo})

\* the entry lists: at most MaxEntries of AllEntries, in key order
EntryLists ==
  { [i \in 1..Cardinality(S) |-> AllEntries[Sorted(S)[i]]] :
      S \in {T \in SUBSET (1..Len(AllEntries)) : Cardinality(T) <= MaxEntries} }

\* the placements of restart points over m entries: the first entry is
\* always one
RestartSets(m) == IF m = 0 THEN {{}} ELSE {R \in SUBSET (1..m) : 1 \in R}

\* the well-formed blocks, each with what it was written from
WellFormed ==
  { [data |-> BuildBlock(es, R), entries |-> es, restarts |-> R,
      wf |-> TRUE, bad |-> "none", cmp |-> "bytewise"] :
      <<es, R>> \in {<<e, r>> \in EntryLists \X SUBSET (1..MaxEntries) :
                      r \in RestartSets(Len(e))} }

\* n bytes of value b
RECURSIVE Fill(_, _)
Fill(n, b) == IF n = 0 THEN << >> ELSE <<b>> \o Fill(n - 1, b)

\* the largest restart count the model's fixed32 fields carry: 2^31 - 1
HugeCount == <<255, 255, 255, 127>>

\* blocks around the constructor's limits: fewer than four bytes; zero bytes
\* followed by a small restart count or by a huge one
EdgeBlocks ==
  { [data |-> d, entries |-> << >>, restarts |-> {}, wf |-> FALSE,
      bad |-> "none", cmp |-> "bytewise"] :
      d \in {Fill(n, 1) : n \in 0..(SizeofU32 - 1)}
            \cup {Fill(n, 0) \o EncodeFixed32(c) :
                    n \in 0..MaxEdgeZeros, c \in 0..MaxEdgeCount}
            \cup {Fill(n, 0) \o HugeCount : n \in 0..MaxEdgeZeros} }

\* the ways the entry after the good ones is damaged, each with its bytes:
\* "header": fewer than three bytes are left, or a varint32 runs into the
\*           restart array, or a varint32 has more than five bytes;
\* "shared": shared is larger than any previous key;
\* "length": non_shared + value_length is larger than what is left;
\* "wrap":   non_shared = 2^32 - 1 and value_length = 2, whose uint32_t sum
\*           is 1, with one byte left
BadTails ==
  { [bad |-> "header", bytes |-> <<0, 1>>],
    [bad |-> "header", bytes |-> <<128, 128, 128>>],
    [bad |-> "header", bytes |-> <<129, 128, 128, 128, 128, 1, 0, 0>>],
    [bad |-> "shared", bytes |-> <<9, 1, 0, 97>>],
    [bad |-> "length", bytes |-> <<0, 1, 9, 97>>],
    [bad |-> "wrap",   bytes |-> <<0, 255, 255, 255, 255, 15, 2, 97>>] }

\* a block of good entries es with restart points R, then a damaged entry,
\* which is a restart point too when rt
DamagedBlock(es, R, tail, rt) ==
  EntriesBytes(es, R, 1, << >>) \o tail \o RestartBytes(es, R, 1)
    \o (IF rt THEN EncodeFixed32(Len(EntriesBytes(es, R, 1, << >>)))
              ELSE << >>)
    \o EncodeFixed32(Cardinality(R) + (IF rt THEN 1 ELSE 0))

\* the damaged blocks: at most MaxGood good entries before the damaged one
Damaged ==
  { [data |-> DamagedBlock(x[1], x[2], x[3].bytes, x[4]), entries |-> x[1],
      restarts |-> x[2], wf |-> FALSE, bad |-> x[3].bad,
      cmp |-> "bytewise"] :
      x \in { y \in EntryLists \X (SUBSET (1..MaxGood)) \X BadTails
                       \X BOOLEAN :
                /\ Len(y[1]) <= MaxGood
                /\ y[2] \in RestartSets(Len(y[1]))
                /\ (y[1] = << >> => y[4]) } }

\* the restart arrays that are not the increasing offsets of restart
\* entries, for entry areas of n bytes whose second entry starts at o: out
\* of order, into the middle of an entry, the same offset twice, into the
\* restart array
BadRestartArrays(n, o) == { <<o, 0>>, <<0, 1>>, <<0, 0>>, <<0, n + SizeofU32>> }

\* the fixed32 words of a restart array
RECURSIVE RestartWords(_)
RestartWords(offs) ==
  IF offs = << >> THEN << >>
  ELSE EncodeFixed32(Head(offs)) \o RestartWords(Tail(offs))

\* a block of entries es, each written as a restart entry, with the
\* restart array offs
MalformedBlock(es, offs) ==
  [data |-> EntriesBytes(es, 1..Len(es), 1, << >>) \o RestartWords(offs)
              \o EncodeFixed32(Len(offs)),
   entries |-> es, restarts |-> {}, wf |-> FALSE, bad |-> "restarts",
   cmp |-> "bytewise"]

\* the blocks of MaxGood good entries with a malformed restart array
MalformedRestarts ==
  UNION { { MalformedBlock(es, offs) :
              offs \in BadRestartArrays(
                         Len(EntriesBytes(es, 1..Len(es), 1, << >>)),
                         EntryOffset(es, 1..Len(es), 2)) } :
          es \in {e \in EntryLists : Len(e) = MaxGood} }

\* the records blocks of internal keys are written from, in the order of
\* the internal-key comparator
InternalEntries ==
  << [key |-> AppendInternalKey(<< >>, [user_key |-> <<97>>,
                                        sequence |-> U64(5),
                                        type |-> kTypeValue]),
      value |-> <<1>>],
     [key |-> AppendInternalKey(<< >>, [user_key |-> <<97>>,
                                        sequence |-> U64(3),
                                        type |-> kTypeDeletion]),
      value |-> << >>],
     [key |-> AppendInternalKey(<< >>, [user_key |-> <<98>>,
                                        sequence |-> U64(1),
                                        type |-> kTypeValue]),
      value |-> <<4>>] >>

\* the well-formed blocks of internal keys
WellFormedInternal ==
  { [data |-> BuildBlock(x[1], x[2]), entries |-> x[1], restarts |-> x[2],
      wf |-> TRUE, bad |-> "none", cmp |-> "internal"] :
      x \in { y \in { [i \in 1..Cardinality(S) |->
                         InternalEntries[Sorted(S)[i]]] :
                       S \in SUBSET (1..Len(InternalEntries)) }
                     \X (SUBSET (1..Len(InternalEntries))) :
                y[2] \in RestartSets(Len(y[1])) } }

\* the contents a Block is constructed from
Contents ==
  WellFormed \cup EdgeBlocks \cup Damaged \cup WellFormedInternal
    \cup MalformedRestarts

\* no contents, no Block
NoContents == [data |-> << >>, entries |-> << >>, restarts |-> {},
               wf |-> FALSE, bad |-> "none", cmp |-> "bytewise"]
NoBlock == [data_ |-> << >>, size_ |-> -1, restart_offset_ |-> -1,
            src |-> NoContents]
\* a member the constructor did not set
Uninit == -1
\* value_ after Slice(): it points at no byte of the block
Nowhere == -1
NoIter == [kind |-> "none", comparator_ |-> "bytewise", restarts_ |-> 0,
           num_restarts_ |-> 0,
           current_ |-> 0, restart_index_ |-> 0, key_ |-> << >>,
           voff |-> Nowhere, vlen |-> 0, status_ |-> "OK"]
\* what is remembered of the calls made on the iterator: the walk under way
\* (from, seen, done), the last call and its argument (op, target), and
\* whether every call so far was made where its REQUIRES holds (legal)
NoTrail == [from |-> "none", seen |-> << >>, done |-> FALSE, op |-> "none",
            target |-> << >>, legal |-> TRUE]

BlockInit ==
  /\ block = NoBlock
  /\ iter = NoIter
  /\ trail = NoTrail

\* Block::NumRestarts(): the trailing fixed32
NumRestarts(data, size) == DecodeFixed32(data, size - SizeofU32)

\* Block::Block, as an alternative: the restart count's own four bytes are
\* not taken off the size
BlockCtor_CountWordForgotten(data) ==
  IF Len(data) < SizeofU32
  THEN [size_ |-> 0, restart_offset_ |-> Uninit]
  ELSE LET max_restarts_allowed == Len(data) \div SizeofU32 IN
         IF NumRestarts(data, Len(data)) > max_restarts_allowed
         THEN [size_ |-> 0, restart_offset_ |-> Uninit]
         ELSE [size_ |-> Len(data),
               restart_offset_ |->
                 Len(data) - (1 + NumRestarts(data, Len(data))) * SizeofU32]

\* size_ and restart_offset_ as Block::Block(contents) leaves them
BlockCtor(data) ==
  IF Len(data) < SizeofU32
  THEN [size_ |-> 0, restart_offset_ |-> Uninit]
  ELSE LET max_restarts_allowed == (Len(data) - SizeofU32) \div SizeofU32 IN
         IF NumRestarts(data, Len(data)) > max_restarts_allowed
         THEN [size_ |-> 0, restart_offset_ |-> Uninit]
         ELSE [size_ |-> Len(data),
               restart_offset_ |->
                 Len(data) - (1 + NumRestarts(data, Len(data))) * SizeofU32]

\* Block::Block(contents)
BlockNew ==
  /\ block = NoBlock
  /\ \E c \in Contents :
       block' = [data_ |-> c.data, size_ |-> BlockCtor(c.data).size_,
                 restart_offset_ |-> BlockCtor(c.data).restart_offset_,
                 src |-> c]
  /\ iter' = NoIter
  /\ trail' = NoTrail
  /\ UNCHANGED notBlockVars

\* Block::~Block, the iterator deleted with it
BlockDelete ==
  /\ block # NoBlock
  /\ block' = NoBlock
  /\ iter' = NoIter
  /\ trail' = NoTrail
  /\ UNCHANGED notBlockVars

\* Block::NewIterator, as an alternative: a corrupt block gets the empty
\* iterator
NewIterator_CorruptAsEmpty ==
  /\ block # NoBlock
  /\ iter' =
       IF block.size_ < SizeofU32
       THEN [NoIter EXCEPT !.kind = "empty"]
       ELSE IF NumRestarts(block.data_, block.size_) = 0
       THEN [NoIter EXCEPT !.kind = "empty"]
       ELSE [NoIter EXCEPT !.kind = "iter",
               !.comparator_ = block.src.cmp,
               !.restarts_ = block.restart_offset_,
               !.num_restarts_ = NumRestarts(block.data_, block.size_),
               !.current_ = block.restart_offset_,
               !.restart_index_ = NumRestarts(block.data_, block.size_)]
  /\ trail' = NoTrail
  /\ UNCHANGED block
  /\ UNCHANGED notBlockVars

\* Block::NewIterator(cmp): NewErrorIterator(Corruption) for size_ < 4,
\* NewEmptyIterator() for num_restarts == 0, else
\* Iter(cmp, data_, restart_offset_, num_restarts) with
\* current_(restarts_), restart_index_(num_restarts_); cmp is the comparator
\* the block's keys were written in the order of
NewIterator ==
  /\ block # NoBlock
  /\ iter' =
       IF block.size_ < SizeofU32
       THEN [NoIter EXCEPT !.kind = "error", !.status_ = "Corruption"]
       ELSE IF NumRestarts(block.data_, block.size_) = 0
       THEN [NoIter EXCEPT !.kind = "empty"]
       ELSE [NoIter EXCEPT !.kind = "iter",
               !.comparator_ = block.src.cmp,
               !.restarts_ = block.restart_offset_,
               !.num_restarts_ = NumRestarts(block.data_, block.size_),
               !.current_ = block.restart_offset_,
               !.restart_index_ = NumRestarts(block.data_, block.size_)]
  /\ trail' = NoTrail
  /\ UNCHANGED block
  /\ UNCHANGED notBlockVars

(***************************************************************************)
(* DecodeEntry and the varint32 decoder it calls.                          *)
(***************************************************************************)
\* (g << shift) as a uint32_t, for a 7-bit group g; bits above bit 31 are
\* dropped
Shl7(g, shift) ==
  IF shift = 0 THEN <<0, g>>
  ELSE IF shift = 7 THEN <<0, g * 128>>
  ELSE IF shift = 14 THEN <<g \div 4, (g % 4) * 16384>>
  ELSE IF shift = 21 THEN <<g * 32, 0>>
  ELSE <<(g % 16) * 4096, 0>>

\* result |= x, for bit ranges that do not overlap
U32Or(a, b) == <<a[1] + b[1], a[2] + b[2]>>

\* the NULL result of a decoder
DecodeFail == [ok |-> FALSE, p |-> 0, v |-> U32(0)]

\* GetVarint32Ptr(p, limit, &v): up to five bytes of seven bits, the lowest
\* first, the last one without the 128 bit; NULL at limit or after five
RECURSIVE Varint32(_, _, _, _, _)
Varint32(data, p, limit, shift, acc) ==
  IF shift > 28 \/ p >= limit
  THEN DecodeFail
  ELSE IF data[p + 1] >= 128
  THEN Varint32(data, p + 1, limit, shift + 7,
                U32Or(acc, Shl7(data[p + 1] - 128, shift)))
  ELSE [ok |-> TRUE, p |-> p + 1, v |-> U32Or(acc, Shl7(data[p + 1], shift))]

GetVarint32Ptr(data, p, limit) == Varint32(data, p, limit, 0, U32(0))

\* the NULL result of DecodeEntry
NoEntry == [ok |-> FALSE, p |-> 0, shared |-> U32(0), non_shared |-> U32(0),
            value_length |-> U32(0)]

\* the third GetVarint32Ptr of DecodeEntry: value_length
DecodeValueLength(a, b, c) ==
  IF ~c.ok
  THEN NoEntry
  ELSE [ok |-> TRUE, p |-> c.p, shared |-> a.v, non_shared |-> b.v,
        value_length |-> c.v]

\* the second GetVarint32Ptr of DecodeEntry: non_shared
DecodeNonShared(data, limit, a, b) ==
  IF ~b.ok
  THEN NoEntry
  ELSE DecodeValueLength(a, b, GetVarint32Ptr(data, b.p, limit))

\* the first GetVarint32Ptr of DecodeEntry: shared
DecodeShared(data, limit, a) ==
  IF ~a.ok
  THEN NoEntry
  ELSE DecodeNonShared(data, limit, a, GetVarint32Ptr(data, a.p, limit))

\* DecodeEntry up to the final length check, as an alternative: the fast
\* path is taken as soon as the first byte is below 128
DecodeHeader_FirstByteOnly(data, p, limit) ==
  IF limit - p < 3
  THEN NoEntry
  ELSE IF data[p + 1] < 128
  THEN [ok |-> TRUE, p |-> p + 3, shared |-> U32(data[p + 1]),
        non_shared |-> U32(data[p + 2]), value_length |-> U32(data[p + 3])]
  ELSE DecodeShared(data, limit, GetVarint32Ptr(data, p, limit))

\* DecodeEntry up to the final length check: the three-byte fast path when
\* all three bytes are below 128, else three varint32
DecodeHeader(data, p, limit) ==
  IF limit - p < 3
  THEN NoEntry
  ELSE IF data[p + 1] < 128 /\ data[p + 2] < 128 /\ data[p + 3] < 128
  THEN [ok |-> TRUE, p |-> p + 3, shared |-> U32(data[p + 1]),
        non_shared |-> U32(data[p + 2]), value_length |-> U32(data[p + 3])]
  ELSE DecodeShared(data, limit, GetVarint32Ptr(data, p, limit))

\* the final check of DecodeEntry on the decoded header h:
\* static_cast<uint32_t>(limit - p) < (*non_shared + *value_length), the sum
\* taken in uint32_t
DecodeLimit(h, limit) ==
  IF ~h.ok
  THEN NoEntry
  ELSE IF U32Less(U32(limit - h.p), U32Add(h.non_shared, h.value_length))
  THEN NoEntry
  ELSE h

\* DecodeEntry(p, limit, &shared, &non_shared, &value_length)
DecodeEntry(data, p, limit) == DecodeLimit(DecodeHeader(data, p, limit), limit)

(***************************************************************************)
(* Block::Iter                                                             *)
(***************************************************************************)
\* Valid(): current_ < restarts_
Valid(it) == it.kind = "iter" /\ it.current_ < it.restarts_

\* NextEntryOffset(): (value_.data() + value_.size()) - data_
NextEntryOffset(it) == it.voff + it.vlen

\* GetRestartPoint(index)
GetRestartPoint(it, index) ==
  DecodeFixed32(block.data_, it.restarts_ + index * SizeofU32)

\* SeekToRestartPoint(index), as an alternative: repositioning also resets
\* status_
SeekToRestartPoint_ClearsStatus(it, index) ==
  [it EXCEPT !.key_ = << >>, !.restart_index_ = index,
             !.voff = GetRestartPoint(it, index), !.vlen = 0,
             !.status_ = "OK"]

\* SeekToRestartPoint(index): key_.clear(); restart_index_ = index;
\* value_ = Slice(data_ + offset, 0)
SeekToRestartPoint(it, index) ==
  [it EXCEPT !.key_ = << >>, !.restart_index_ = index,
             !.voff = GetRestartPoint(it, index), !.vlen = 0]

\* CorruptionError()
CorruptionError(it) ==
  [it EXCEPT !.current_ = it.restarts_, !.restart_index_ = it.num_restarts_,
             !.status_ = "Corruption", !.key_ = << >>,
             !.voff = Nowhere, !.vlen = 0]

\* the while loop at the end of ParseNextKey
RECURSIVE AdvanceRestartIndex(_)
AdvanceRestartIndex(it) ==
  IF it.restart_index_ + 1 < it.num_restarts_
       /\ GetRestartPoint(it, it.restart_index_ + 1) < it.current_
  THEN AdvanceRestartIndex([it EXCEPT !.restart_index_ = @ + 1])
  ELSE it

\* an entry whose key suffix and value lie inside [p, limit)
InsideBlock(e, limit) ==
  /\ e.non_shared[1] = 0
  /\ e.value_length[1] = 0
  /\ e.p + e.non_shared[2] + e.value_length[2] <= limit

\* ParseNextKey past its first line, as an alternative: key_ is not cut back
\* to the shared prefix before the suffix is appended
ParseEntry_NoResize(it, current, e) ==
  IF current >= it.restarts_
  THEN [ok |-> FALSE,
        it |-> [it EXCEPT !.current_ = it.restarts_,
                          !.restart_index_ = it.num_restarts_]]
  ELSE IF ~e.ok \/ U32Less(U32(Len(it.key_)), e.shared)
  THEN [ok |-> FALSE, it |-> CorruptionError([it EXCEPT !.current_ = current])]
  ELSE IF ~InsideBlock(e, it.restarts_)
  THEN [ok |-> FALSE, it |-> [it EXCEPT !.kind = "ub"]]
  ELSE [ok |-> TRUE,
        it |-> AdvanceRestartIndex(
                 [it EXCEPT
                    !.current_ = current,
                    !.key_ = it.key_
                               \o SubSeq(block.data_, e.p + 1,
                                         e.p + ToInt(e.non_shared)),
                    !.voff = e.p + ToInt(e.non_shared),
                    !.vlen = ToInt(e.value_length)])]

\* ParseNextKey past its first line: current is NextEntryOffset(), e is what
\* DecodeEntry(data_ + current, data_ + restarts_, ...) gives (not used when
\* current >= restarts_).  An accepted entry that reaches past the block
\* makes key_.append read bytes that are not the block's: the iterator is
\* then of kind "ub".
ParseEntry(it, current, e) ==
  IF current >= it.restarts_
  THEN [ok |-> FALSE,
        it |-> [it EXCEPT !.current_ = it.restarts_,
                          !.restart_index_ = it.num_restarts_]]
  ELSE IF ~e.ok \/ U32Less(U32(Len(it.key_)), e.shared)
  THEN [ok |-> FALSE, it |-> CorruptionError([it EXCEPT !.current_ = current])]
  ELSE IF ~InsideBlock(e, it.restarts_)
  THEN [ok |-> FALSE, it |-> [it EXCEPT !.kind = "ub"]]
  ELSE [ok |-> TRUE,
        it |-> AdvanceRestartIndex(
                 [it EXCEPT
                    !.current_ = current,
                    !.key_ = SubSeq(it.key_, 1, ToInt(e.shared))
                               \o SubSeq(block.data_, e.p + 1,
                                         e.p + ToInt(e.non_shared)),
                    !.voff = e.p + ToInt(e.non_shared),
                    !.vlen = ToInt(e.value_length)])]

\* ParseNextKey(): the iterator afterwards and the value returned
ParseNextKey(it) ==
  ParseEntry(it, NextEntryOffset(it),
             DecodeEntry(block.data_, NextEntryOffset(it), it.restarts_))

\* key() and value() of a valid iterator
IterKey(it) == it.key_
IterValue(it) == SubSeq(block.data_, it.voff + 1, it.voff + it.vlen)

\* SeekToFirst()
SeekToFirst(it) == ParseNextKey(SeekToRestartPoint(it, 0)).it

\* the loop of SeekToLast: while (ParseNextKey() && NextEntryOffset() <
\* restarts_) { }; r is what ParseNextKey() gave
RECURSIVE SkipToLast(_)
SkipToLast(r) ==
  IF r.ok /\ NextEntryOffset(r.it) < r.it.restarts_
  THEN SkipToLast(ParseNextKey(r.it))
  ELSE r.it

\* SeekToLast()
SeekToLast(it) ==
  SkipToLast(ParseNextKey(SeekToRestartPoint(it, it.num_restarts_ - 1)))

\* Prev(), second loop, as an alternative: it stops at the first entry
\* parsed
PrevParse_NoLoop(r, original) == r.it

\* Prev(), second loop: do { } while (ParseNextKey() && NextEntryOffset() <
\* original); r is what ParseNextKey() gave
RECURSIVE PrevParse(_, _)
PrevParse(r, original) ==
  IF r.ok /\ NextEntryOffset(r.it) < original
  THEN PrevParse(ParseNextKey(r.it), original)
  ELSE r.it

\* Prev(), first loop: back to a restart point before original, or no more
\* entries
RECURSIVE PrevFrom(_, _)
PrevFrom(it, original) ==
  IF GetRestartPoint(it, it.restart_index_) >= original
  THEN IF it.restart_index_ = 0
       THEN [it EXCEPT !.current_ = it.restarts_,
                       !.restart_index_ = it.num_restarts_]
       ELSE PrevFrom([it EXCEPT !.restart_index_ = @ - 1], original)
  ELSE PrevParse(ParseNextKey(SeekToRestartPoint(it, it.restart_index_)),
                 original)

\* Prev(), as an alternative: original is taken at the end of the current
\* entry
Prev_FromNext(it) == PrevFrom(it, NextEntryOffset(it))

\* Prev()
Prev(it) == PrevFrom(it, it.current_)

\* Block::Iter::Compare(a, b): comparator_->Compare(a, b)
IterCompare(it, a, b) ==
  IF it.comparator_ = "internal"
  THEN InternalKeyComparatorCompare(a, b)
  ELSE Compare(a, b)

\* the outcome of Seek's binary search: the final left, or corrupt, or ub
SearchResult(corrupt, ub, left) ==
  [corrupt |-> corrupt, ub |-> ub, left |-> left]

\* Seek(), the binary search over the restart array: the final left, or
\* corrupt when a restart entry does not decode or has shared # 0; mid_key
\* of an accepted entry that reaches past the block is compared over bytes
\* that are not the block's (ub).  SeekProbe is the body of the loop for
\* the entry e decoded at restart point mid.
\* uint32_t mid = (left + right + 1) / 2, as an alternative: rounded down
SeekMid_RoundedDown(left, right) == (left + right) \div 2

\* uint32_t mid = (left + right + 1) / 2
SeekMid(left, right) == (left + right + 1) \div 2

RECURSIVE SeekSearch(_, _, _, _)
SeekProbe(it, left, right, target, mid, e) ==
  IF ~e.ok \/ e.shared # U32(0)
  THEN SearchResult(TRUE, FALSE, left)
  ELSE IF ~InsideBlock(e, it.restarts_)
  THEN SearchResult(FALSE, TRUE, left)
  ELSE IF IterCompare(it, SubSeq(block.data_, e.p + 1,
                                 e.p + ToInt(e.non_shared)), target) < 0
  THEN SeekSearch(it, mid, right, target)
  ELSE SeekSearch(it, left, mid - 1, target)

SeekSearch(it, left, right, target) ==
  IF left < right
  THEN SeekProbe(it, left, right, target, SeekMid(left, right),
                 DecodeEntry(block.data_,
                             GetRestartPoint(it, SeekMid(left, right)),
                             it.restarts_))
  ELSE SearchResult(FALSE, FALSE, left)

\* Seek(), the linear search, as an alternative: it stops at the first key
\* above target
RECURSIVE SeekScan_Strict(_, _)
SeekScan_Strict(r, target) ==
  IF ~r.ok THEN r.it
  ELSE IF IterCompare(r.it, r.it.key_, target) > 0 THEN r.it
  ELSE SeekScan_Strict(ParseNextKey(r.it), target)

\* Seek(), the linear search: the first key >= target; r is what
\* ParseNextKey() gave
RECURSIVE SeekScan(_, _)
SeekScan(r, target) ==
  IF ~r.ok THEN r.it
  ELSE IF IterCompare(r.it, r.it.key_, target) >= 0 THEN r.it
  ELSE SeekScan(ParseNextKey(r.it), target)

\* Seek(target) after the binary search gave b
SeekFrom(it, b, target) ==
  IF b.corrupt
  THEN CorruptionError(it)
  ELSE IF b.ub
  THEN [it EXCEPT !.kind = "ub"]
  ELSE SeekScan(ParseNextKey(SeekToRestartPoint(it, b.left)), target)

\* Seek(target)
Seek(it, target) ==
  SeekFrom(it, SeekSearch(it, 0, it.num_restarts_ - 1, target), target)

\* what the iterator is on: key() and value()
Entry(it) == [key |-> IterKey(it), value |-> IterValue(it)]

\* the history after a call that is not a step of a walk
After(op, target) ==
  [NoTrail EXCEPT !.op = op, !.target = target, !.legal = trail.legal]

\* the history after a step of a walk: the entry reached, or the end
Walked(it) ==
  IF Valid(it)
  THEN [trail EXCEPT !.seen = Append(@, Entry(it))]
  ELSE [trail EXCEPT !.done = TRUE]

\* the targets of Seek: every key of AllEntries, a key before them all, keys
\* between them and a key after them all
Targets ==
  {AllEntries[i].key : i \in 1..Len(AllEntries)}
    \cup {<< >>, <<97, 97>>, <<97, 99>>, <<99>>}

\* the targets of Seek on a block of internal keys: (k, s, kValueTypeForSeek)
\* for user keys among, between and after the records' and sequence numbers
\* at, between, below and above theirs
SeekUserKeys == {<<97>>, <<97, 98>>, <<98>>, <<99>>}
SeekSequences == {U64(0), U64(2), U64(3), U64(4), U64(5), kMaxSequenceNumber}
SeekKey(k, s) ==
  AppendInternalKey(<< >>, [user_key |-> k, sequence |-> s,
                            type |-> kValueTypeForSeek])
SeekKeys == {SeekKey(k, s) : k \in SeekUserKeys, s \in SeekSequences}

(***************************************************************************)
(* The iterator's operations.  The empty iterator and the error iterator   *)
(* stay as they are under every positioning operation.                     *)
(***************************************************************************)
IterSeekToFirst ==
  /\ iter.kind \in {"iter", "empty", "error"}
  /\ iter' = IF iter.kind = "iter" THEN SeekToFirst(iter) ELSE iter
  /\ trail' = IF Valid(iter')
              THEN [After("first", << >>) EXCEPT
                      !.from = "first", !.seen = <<Entry(iter')>>]
              ELSE [After("first", << >>) EXCEPT
                      !.from = "first", !.done = TRUE]
  /\ UNCHANGED block
  /\ UNCHANGED notBlockVars

IterSeekToLast ==
  /\ iter.kind \in {"iter", "empty", "error"}
  /\ iter' = IF iter.kind = "iter" THEN SeekToLast(iter) ELSE iter
  /\ trail' = IF Valid(iter')
              THEN [After("last", << >>) EXCEPT
                      !.from = "last", !.seen = <<Entry(iter')>>]
              ELSE [After("last", << >>) EXCEPT
                      !.from = "last", !.done = TRUE]
  /\ UNCHANGED block
  /\ UNCHANGED notBlockVars

IterSeek(target) ==
  /\ iter.kind \in {"iter", "empty", "error"}
  /\ target \in (IF iter.comparator_ = "internal" THEN SeekKeys ELSE Targets)
  /\ iter' = IF iter.kind = "iter" THEN Seek(iter, target) ELSE iter
  /\ trail' = [After("seek", target) EXCEPT !.from = "seek"]
  /\ UNCHANGED block
  /\ UNCHANGED notBlockVars

\* Next(), REQUIRES: Valid()
IterNext ==
  /\ Valid(iter)
  /\ iter' = ParseNextKey(iter).it
  /\ trail' = IF trail.from = "first" /\ ~trail.done
              THEN [Walked(iter') EXCEPT !.op = "next"]
              ELSE [After("next", << >>) EXCEPT !.from = "next"]
  /\ UNCHANGED block
  /\ UNCHANGED notBlockVars

\* Next() where Valid() does not hold.  With assertions compiled in,
\* assert(Valid()) ends the process.  Without them ParseNextKey() runs from
\* NextEntryOffset(): from the end of the entry value_ was left on, or, when
\* value_ is the empty Slice, from an offset that is not one of the block.
IterNextInvalid(ndebug) ==
  /\ iter.kind = "iter"
  /\ ~Valid(iter)
  /\ iter' = IF ~ndebug THEN [iter EXCEPT !.kind = "aborted"]
             ELSE IF iter.voff = Nowhere THEN [iter EXCEPT !.kind = "ub"]
             ELSE ParseNextKey(iter).it
  /\ trail' = [After("next", << >>) EXCEPT !.from = "next", !.legal = FALSE]
  /\ UNCHANGED block
  /\ UNCHANGED notBlockVars

\* Prev(), REQUIRES: Valid()
IterPrev ==
  /\ Valid(iter)
  /\ iter' = Prev(iter)
  /\ trail' = IF trail.from = "last" /\ ~trail.done
              THEN [Walked(iter') EXCEPT !.op = "prev"]
              ELSE [After("prev", << >>) EXCEPT !.from = "prev"]
  /\ UNCHANGED block
  /\ UNCHANGED notBlockVars

BlockNext ==
  \/ BlockNew
  \/ BlockDelete
  \/ NewIterator
  \/ IterSeekToFirst
  \/ IterSeekToLast
  \/ \E target \in Targets \cup SeekKeys : IterSeek(target)
  \/ IterNext
  \/ \E ndebug \in BOOLEAN : IterNextInvalid(ndebug)
  \/ IterPrev


\* The state after construction of every process's PosixEnv, before any
\* Block is constructed.
Init ==
  SchedInit /\ LockInit /\ RafInit /\ SyncInit /\ BlockInit /\ KeyInit

KeySpec == Init /\ [][KeyNext]_vars

RafSpec == Init /\ [][RafNext]_vars

SyncSpec == Init /\ [][SyncNext]_vars

BlockSpec == Init /\ [][BlockNext]_vars

LockSpec == Init /\ [][LockNext]_vars

SchedSpec == Init /\ [][SchedNext]_vars

\* Threads are scheduled fairly: a thread inside Schedule goes on, and the
\* background thread goes on, a running callable returning included.  A
\* spurious wake-up is never owed.
SchedFairSpec ==
  /\ SchedSpec
  /\ \A t \in SThreads : WF_vars(ScheduleStep(t))
  /\ \A w \in Workers : WF_vars(BGThread(w))

(***************************************************************************)
(* Properties of the background scheduler.                                 *)
(***************************************************************************)
StartedBefore(k) == {started[m] : m \in 1..(k - 1)}

\* C1: the background thread starts the callables in the order in which
\* their Schedule calls inserted them into the queue (the started items are
\* a prefix of the inserted items), so a callable whose Schedule call had
\* returned before another's Schedule call began starts before that one.
C1_StartInSubmissionOrder ==
  /\ IsPrefix(started, inserted)
  /\ \A k \in 1..Len(started) : retBefore[started[k]] \subseteq StartedBefore(k)

\* Two Schedule calls ran concurrently, a third began after one of them had
\* returned, and all three callables were started.
C1_Witness ==
  /\ Len(started) = MaxItems
  /\ \E i, j \in Items : i # j /\ i \in retBefore[j]
  /\ \E i, j \in Items : i < j /\ i \notin retBefore[j]

\* C2: every item is invoked at most once and only after it was scheduled;
\* an item is in the queue exactly from its push_back until a background
\* thread takes it for invocation.
C2_AtMostOnce ==
  \A i \in Items :
    /\ invoked[i] \in {0, 1}
    /\ invoked[i] = 1 => i \in Range(inserted)
    /\ i \in Range(queue_) <=>
         /\ i \in Range(inserted)
         /\ i \notin Range(started)
         /\ \A w \in Workers : cur[w] # i
    /\ Cardinality({k \in 1..Len(queue_) : queue_[k] = i}) <= 1

\* An item was invoked once and has left the queue while another is queued.
C2_Witness ==
  \E i, j \in Items :
    /\ invoked[i] = 1
    /\ i \notin Range(queue_)
    /\ j \in Range(queue_)

\* C3: under fair scheduling of the threads, every item put into the queue
\* is eventually invoked.
C3_EventuallyInvoked ==
  \A i \in Items : (i \in Range(queue_)) ~> (invoked[i] >= 1)

\* Every item of the behaviour was queued and invoked, the last of them
\* after the background thread had blocked in its wait.
C3_Witness ==
  /\ \A i \in Items : invoked[i] = 1
  /\ queue_ = <<>>
  /\ \E w \in Workers : bpc[w] = "wait"

Running == {w \in Workers : bpc[w] = "run"}

\* C4: at most one callable is executing at any time, and the callables
\* complete in the order of their insertion.
C4_OneAtATimeInOrder ==
  /\ Cardinality(Running) <= 1
  /\ IsPrefix(finished, inserted)

\* Two callables have completed and a third is executing.
C4_Witness ==
  /\ Len(finished) >= 2
  /\ Running # {}

Created == {w \in Workers : bpc[w] # "none"}

\* C5: no background thread exists before the first Schedule call reaches
\* its pthread_create, and once one Schedule call has returned exactly one
\* background thread has been created, whatever the number of calls and
\* their interleaving.
C5_ExactlyOneWorker ==
  /\ Cardinality(Created) = (IF started_bgthread_ THEN 1 ELSE 0)
  /\ nextItem = 1 => Created = {}
  /\ returned # {} => Cardinality(Created) = 1

\* Two Schedule calls are inside Schedule together after a third returned.
C5_Witness ==
  /\ returned # {}
  /\ \E t, u \in SThreads : t # u /\ spc[t] # "idle" /\ spc[u] # "idle"
  /\ Cardinality(Created) = 1

\* The positions at which a thread owns mu_ and goes on to release it
\* without waiting for anything.
HoldsInSchedule(t) == spc[t] \in {"create", "signal", "push", "unlock"}

HoldsInBGThread(t) == t \in Workers /\ bpc[t] \in {"check", "pop", "unlock"}

\* C6: the background thread does not own mu_ while a callable runs (unless
\* the callable itself is inside Schedule), and whoever owns mu_ is at a
\* position from which it releases it, so no thread waits for mu_ forever:
\* neither a callable calling Schedule nor another thread doing so.
C6_NoMutexWhileRunning ==
  /\ \A w \in Workers :
       bpc[w] \in {"call", "run"} /\ ~HoldsInSchedule(w) => mu_ # w
  /\ \A t \in SThreads : spc[t] = "lock" => mu_ # t
  /\ mu_ # 0 => HoldsInSchedule(mu_) \/ HoldsInBGThread(mu_)
  /\ \A t \in SThreads :
       (HoldsInSchedule(t) \/ HoldsInBGThread(t)) => mu_ = t

\* A running callable is inside its own Schedule call, owning mu_, while
\* another thread waits to lock mu_ for its Schedule call.
C6_Witness ==
  \E w \in Workers, t \in Producers :
    /\ bpc[w] = "run"
    /\ spc[w] = "push"
    /\ mu_ = w
    /\ spc[t] = "lock"


(***************************************************************************)
(* Properties of the advisory file lock.                                   *)
(***************************************************************************)
\* A live handle still has what LockFile gave it: its name registered in
\* the process's lock table and the process's fcntl lock on its file.
HandleIntact(p, h) ==
  /\ h.name_ \in locked_files_[p]
  /\ oslock[FileOf(h.name_)] = p

\* No other thread of t's process is inside LockFile or UnlockFile.
AloneInProcess(t) ==
  \A u \in LThreads : u # t /\ ProcOf(u) = ProcOf(t) => lpc[u] = "idle"

\* C7: when a process that holds a lock on a path calls LockFile on that
\* path again (one call after the other, no UnlockFile in between), the
\* second call returns IOError with *lock = NULL and the handle already
\* held on that path keeps its registration and its OS-level lock.
C7_SecondLockKeepsFirst ==
  \A t \in LThreads :
    lpc[t] = "ret" /\ lres[t] = "IOError_held" /\ AloneInProcess(t) =>
      /\ llock[t] = NULL
      /\ \A h \in handles[ProcOf(t)] :
           h.name_ = lname[t] => HandleIntact(ProcOf(t), h)

\* C8: while one process holds a live handle on a path, no LockFile on that
\* path by another process succeeds: two processes never hold live handles
\* on the same path together.
C8_OtherProcessRefused ==
  \A p, q \in Procs :
    p # q =>
      \A h \in handles[p], g \in handles[q] : h.name_ # g.name_

\* The threads of process p that have registered fname and not removed it.
Registering(p, fname) ==
  {t \in LThreads :
     /\ ProcOf(t) = p
     /\ lname[t] = fname
     /\ lpc[t] \in {"l_fcntl", "l_close2", "l_remove", "u_remove"}}

\* The threads of process p inside UnlockFile whose descriptor is open.
Unlocking(p) ==
  {t \in LThreads : ProcOf(t) = p /\ lpc[t] \in {"u_remove", "u_close"}}

\* C9: UnlockFile releases the registration and the OS lock.  A name stays
\* registered only for a live handle or a call in progress, and a process
\* owns the OS lock only for a live handle or an UnlockFile in progress; so
\* LockFile is refused as "already held by process" only when the path had
\* another holder, and a LockFile entered right after an UnlockFile of the
\* same path, with no other holder, is not refused by the lock table.
C9_UnlockReleasesBoth ==
  /\ \A p \in Procs : \A fname \in locked_files_[p] :
       \/ \E h \in handles[p] : h.name_ = fname
       \/ Registering(p, fname) # {}
  /\ \A f \in Files : \A p \in Procs :
       oslock[f] = p =>
         \/ \E h \in handles[p] : FileOf(h.name_) = f
         \/ Unlocking(p) # {}
  /\ \A t \in LThreads :
       lpc[t] = "ret" /\ lres[t] = "IOError_held" => lholder[t]

\* A LockFile entered right after an UnlockFile of the same path by the
\* same process has returned OK with a handle.
C9_Witness ==
  \E t \in LThreads :
    /\ lround = <<"relock", t>>
    /\ lpc[t] = "ret"
    /\ lres[t] = "OK"
    /\ llock[t] \in handles[ProcOf(t)]

Mapped == {k \in RafSlots : raf[k].kind = "mmap"}

\* the live PosixRandomAccessFile objects that keep a descriptor
LongLived == {k \in RafSlots : raf[k].kind = "posix" /\ ~raf[k].temporary_fd_}

\* the live PosixRandomAccessFile objects that open on every Read
PerRead == {k \in RafSlots : raf[k].kind = "posix" /\ raf[k].temporary_fd_}

\* C11: whatever NewRandomAccessFile calls and destructions the threads
\* make, the live memory-mapped files never outnumber the mmap cap and the
\* PosixRandomAccessFile objects holding a long-lived descriptor never
\* outnumber the descriptor cap.
C11_CapsNeverExceeded ==
  /\ Cardinality(Mapped) <= MmapLimit
  /\ Cardinality(LongLived) <= FdLimit
  /\ \A k \in LongLived : raf[k].fd_ \in RFds /\ rfdtab[raf[k].fd_] # NoFile

\* Both caps are reached and one more file has been opened.
C11_Witness ==
  /\ Cardinality(Mapped) = MmapLimit
  /\ Cardinality(LongLived) = FdLimit
  /\ PerRead # {}

\* a call that has opened a descriptor and not closed it or handed it over
HoldsFd(t) == rth[t].pc \in {"m_acq1", "m_acq2", "map", "f_acq1", "f_acq2",
                              "f_close", "r_pread", "r_close"}

\* a descriptor no other call and no object is using
OwnDescriptor(t) ==
  /\ rth[t].fd \in RFds
  /\ rfdtab[rth[t].fd] = raf[rth[t].obj].filename_
  /\ \A u \in Readers \ {t} : HoldsFd(u) => rth[u].fd # rth[t].fd
  /\ \A k \in RafSlots : raf[k].fd_ # rth[t].fd

\* C12: a NewRandomAccessFile call on an existing file that finds both the
\* mmap cap and the descriptor cap exhausted returns OK with a non-NULL
\* file that keeps no descriptor; no step of the call waits; an error status
\* comes only from a failed open or a failed mapping, never from a cap; and
\* a Read on such a file opens a descriptor of its own, reads through it and
\* closes it.
C12_CapExhaustedFallsBack ==
  /\ \A t \in Readers :
       rth[t].pc = "n_ret" /\ rth[t].macq = "no" /\ rth[t].facq = "no" =>
         /\ rth[t].s = "OK"
         /\ rth[t].result \in PerRead
         /\ raf[rth[t].result].fd_ = NoFd
  /\ \A t \in Readers :
       rth[t].pc = "n_ret" /\ rth[t].s # "OK" =>
         /\ rth[t].result = NoRaf
         /\ rth[t].fname \notin DOMAIN FileData \/ rth[t].macq = "yes"
  /\ \A t \in Readers : InNew(t) => ENABLED RafNewStep(t)
  /\ \A t \in Readers :
       rth[t].pc \in {"r_pread", "r_close"} =>
         rth[t].obj \in PerRead /\ OwnDescriptor(t)
  /\ \A t \in Readers :
       rth[t].pc = "r_close" =>
         rth[t].r = Pread(rth[t].fd, rth[t].n, rth[t].offset)
           \/ (rth[t].s = "IOError" /\ rth[t].r = EmptySlice)
  /\ \A t \in Readers :
       rth[t].pc = "r_ret" /\ rth[t].obj \in PerRead => rth[t].fd # NoFd

\* With both caps exhausted a further file was opened, and a Read on it has
\* read the file's two bytes through its own descriptor.
C12_Witness ==
  /\ Cardinality(Mapped) = MmapLimit
  /\ Cardinality(LongLived) = FdLimit
  /\ \E t \in Readers :
       /\ rth[t].pc = "r_close"
       /\ rth[t].obj \in PerRead
       /\ rth[t].r = FileData[raf[rth[t].obj].filename_]

\* a Read call that has produced its result and status
ReadDone(t) == rth[t].pc \in {"r_close", "r_ret"}

\* the length of the file behind the object of thread t's Read
FileLen(t) == Len(FileData[raf[rth[t].obj].filename_])

\* C13: on every file NewRandomAccessFile returned, memory-mapped or
\* descriptor-based, a Read that starts at or past the end of the file
\* returns no bytes with OK status, and a Read that starts inside the file
\* and extends past its end returns the bytes that are there with OK status.
C13_ReadAtEndShortAndOk ==
  \A t \in Readers :
    ReadDone(t) =>
      /\ rth[t].offset >= FileLen(t) =>
            rth[t].s = "OK" /\ rth[t].r = EmptySlice
      /\ rth[t].offset < FileLen(t)
            /\ rth[t].offset + rth[t].n > FileLen(t) =>
            /\ rth[t].s = "OK"
            /\ rth[t].r = SubSeq(FileData[raf[rth[t].obj].filename_],
                                 rth[t].offset + 1, FileLen(t))

\* What Read(offset, n) on object k returns when no other call runs: the
\* status and the bytes.
ReadAlone(k, offset, n) ==
  LET data == FileData[raf[k].filename_]
      last == IF offset + n < Len(data) THEN offset + n ELSE Len(data)
  IN  IF raf[k].kind = "mmap"
      THEN IF OffsetPlusN(offset, n) > raf[k].length_
           THEN <<"IOError", EmptySlice>>
           ELSE <<"OK", MmapSlice(k, offset, n)>>
      ELSE IF offset >= WordMod \div 2
           THEN <<"IOError", EmptySlice>>
           ELSE <<"OK", SubSeq(data, offset + 1, last)>>

\* C14: every Read call, whatever other Read calls run at the same time on
\* the same or another RandomAccessFile (memory-mapped, long-lived
\* descriptor or per-read descriptor), returns the status and the bytes the
\* same call returns when run alone.
C14_ConcurrentReadsIsolated ==
  \A t \in Readers :
    ReadDone(t) =>
      <<rth[t].s, rth[t].r>> = ReadAlone(rth[t].obj, rth[t].offset, rth[t].n)

\* Two threads read one per-read-descriptor file at the same time, at
\* different offsets, each through its own open descriptor, and each has its
\* own byte.
C14_Witness ==
  \E t, u \in Readers :
    /\ t # u
    /\ rth[t].obj = rth[u].obj
    /\ rth[t].obj \in PerRead
    /\ rth[t].pc = "r_close" /\ rth[u].pc = "r_close"
    /\ rth[t].offset = 0 /\ rth[t].r = <<1>>
    /\ rth[u].offset = 1 /\ rth[u].r = <<2>>

(***************************************************************************)
(* Properties of PosixWritableFile::Sync.                                  *)
(***************************************************************************)
\* the file's name inside its directory starts with "MANIFEST"
IsManifest == StartsWith(wfile.name.base, Manifest)

\* the directory that contains the file, as open() names it
ContainingDir == IF wfile.name.dir = NoDir THEN Dot ELSE wfile.name.dir

\* C15: when Sync returns on a file whose basename starts with "MANIFEST",
\* it returns OK only if the containing directory was fsynced and the
\* buffered data was flushed and synced to disk, and it returns the error
\* if the directory was not fsynced; on a file with any other basename Sync
\* neither opens nor fsyncs a directory.
C15_ManifestSyncsDirectory ==
  wcall.pc = "s_ret" =>
    /\ IsManifest /\ wcall.s = "OK" =>
          /\ ContainingDir \in wcall.fsynced
          /\ wbuf = 0 /\ wkern = 0 /\ wdisk >= wcall.pending
    /\ IsManifest /\ ContainingDir \notin wcall.fsynced => wcall.s = "IOError"
    /\ ~IsManifest => wcall.opened = {} /\ wcall.fsynced = {}
    /\ wcall.fd = NoDir

\* Sync of a MANIFEST inside a nested directory returned OK after the
\* directory was fsynced and two buffered bytes reached the disk.
C15_Witness ==
  /\ wcall.pc = "s_ret"
  /\ wcall.s = "OK"
  /\ wfile.name.dir = <<"d", Slash, "e">>
  /\ IsManifest
  /\ wcall.fsynced = {wfile.name.dir}
  /\ wcall.pending = MaxBytes
  /\ wdisk = MaxBytes

(***************************************************************************)
(* Properties of the block reader.                                         *)
(***************************************************************************)
\* the restart count in the last four bytes of the contents
TrailingCount(d) ==
  d[Len(d) - 3] + 256 * d[Len(d) - 2] + 65536 * d[Len(d) - 1]
    + 16777216 * d[Len(d)]

\* C16: a constructed Block carries the error marker exactly when its
\* contents have fewer than 4 bytes or a trailing restart count above
\* (size - 4) / 4; every other Block keeps its size and has
\* restart_offset_ = size - 4 * (1 + count), which is at least 0 and at most
\* size - 4, so that the count restart offsets end where the count begins.
C16_CorruptExactlyWhenTooSmall ==
  block # NoBlock =>
    LET d == block.src.data
        size == Len(d)
    IN  /\ block.size_ = 0 <=>
              (size < 4 \/ TrailingCount(d) > (size - 4) \div 4)
        /\ block.size_ # 0 =>
              /\ block.size_ = size
              /\ block.restart_offset_ = size - 4 * (1 + TrailingCount(d))
              /\ 0 <= block.restart_offset_
              /\ block.restart_offset_ <= size - 4
              /\ block.restart_offset_ + 4 * TrailingCount(d) = size - 4

\* A block of zeros whose restart count is the largest its size allows is
\* accepted, with the restart array starting at offset 0.
C16_Witness ==
  /\ block # NoBlock
  /\ ~block.src.wf
  /\ block.size_ = 12
  /\ TrailingCount(block.src.data) = 2
  /\ block.restart_offset_ = 0

\* the contents the constructor rejects
CorruptContents(d) ==
  Len(d) < 4 \/ TrailingCount(d) > (Len(d) - 4) \div 4

\* C17: the iterator NewIterator returned is, for a corrupt block, the error
\* iterator: never valid, status Corruption; for an accepted block with
\* restart count 0, the empty iterator: never valid, status OK; for every
\* other block a Block::Iter, which is not valid and has status OK until it
\* is positioned.
C17_IteratorKindByBlock ==
  iter.kind # "none" =>
    LET d == block.src.data IN
      IF CorruptContents(d)
      THEN iter.kind = "error" /\ ~Valid(iter) /\ iter.status_ = "Corruption"
      ELSE IF TrailingCount(d) = 0
      THEN iter.kind = "empty" /\ ~Valid(iter) /\ iter.status_ = "OK"
      ELSE /\ iter.kind \notin {"error", "empty"}
           /\ iter.restarts_ = block.restart_offset_
           /\ iter.num_restarts_ = TrailingCount(d)
           /\ trail.from = "none" => ~Valid(iter) /\ iter.status_ = "OK"

\* The error iterator of a block whose restart count is too large for its
\* size has been through a Seek.
C17_Witness ==
  /\ iter.kind = "error"
  /\ iter.status_ = "Corruption"
  /\ Len(block.src.data) >= 4
  /\ trail.from = "seek"

\* the entries a well-formed block was written from
Written == block.src.entries

\* the offset of the i-th entry of the well-formed block
OffsetOf(i) == EntryOffset(Written, block.src.restarts, i)

\* C18: on a well-formed block with m entries, SeekToFirst followed by
\* repeated Next visits the entries in offset order, each with its full key
\* and its value, and after the m-th entry the iterator is invalid with
\* status OK: exactly the m entries have been visited.  (Every call so far
\* was made where its REQUIRES holds.)
C18_ForwardWalkVisitsAll ==
  block.src.wf /\ trail.legal /\ trail.from = "first" =>
    /\ Len(trail.seen) <= Len(Written)
    /\ trail.seen = SubSeq(Written, 1, Len(trail.seen))
    /\ iter.status_ = "OK"
    /\ trail.done => ~Valid(iter) /\ trail.seen = Written
    /\ ~trail.done =>
          /\ Valid(iter)
          /\ Entry(iter) = Written[Len(trail.seen)]
          /\ iter.current_ = OffsetOf(Len(trail.seen))

\* A forward walk over a block of three entries with two restart points
\* has visited all three and ended.
C18_Witness ==
  /\ block.src.wf
  /\ trail.legal
  /\ trail.from = "first"
  /\ trail.done
  /\ Len(trail.seen) = 3
  /\ Cardinality(block.src.restarts) = 2

\* the entries Next reaches from iterator it on, it's own first
RECURSIVE WalkFrom(_)
WalkFrom(it) ==
  IF Valid(it) THEN <<Entry(it)>> \o WalkFrom(ParseNextKey(it).it) ELSE << >>

\* the (key, value) sequence of SeekToFirst followed by repeated Next
ForwardWalk == WalkFrom(SeekToFirst(iter))

\* C19: on a well-formed block, whatever the placement of its restart
\* points, SeekToLast puts the iterator on the final entry, and SeekToLast
\* followed by repeated Prev visits the (key, value) sequence of SeekToFirst
\* followed by repeated Next in exactly reversed order, ending invalid with
\* status OK.  (Every call so far was made where its REQUIRES holds.)
C19_BackwardWalkIsReverse ==
  block.src.wf /\ trail.legal /\ trail.from = "last" =>
    LET fwd == ForwardWalk
        m == Len(fwd)
    IN  /\ Len(trail.seen) <= m
        /\ \A i \in 1..Len(trail.seen) : trail.seen[i] = fwd[m + 1 - i]
        /\ m > 0 => Len(trail.seen) > 0
        /\ iter.status_ = "OK"
        /\ trail.done => ~Valid(iter) /\ Len(trail.seen) = m
        /\ ~trail.done =>
              /\ Valid(iter)
              /\ Entry(iter) = trail.seen[Len(trail.seen)]
              /\ iter.current_ = OffsetOf(m + 1 - Len(trail.seen))

\* A backward walk over a block of three entries whose second restart
\* point is the last entry has visited all three and ended.
C19_Witness ==
  /\ block.src.wf
  /\ trail.legal
  /\ trail.from = "last"
  /\ trail.done
  /\ Len(trail.seen) = 3
  /\ block.src.restarts = {1, 3}

\* the offset that ends restart range index: the next restart offset, or
\* restarts_ after the last
RangeEnd(it, index) ==
  IF index + 1 < it.num_restarts_
  THEN GetRestartPoint(it, index + 1)
  ELSE it.restarts_

\* C20: whenever a positioning operation (SeekToFirst, SeekToLast, Seek,
\* Next, Prev) has left the iterator valid on a well-formed block, the
\* cursor lies in the restart range of restart_index_: restart offset
\* restart_index_ <= current_ < the next restart offset (restarts_ after the
\* last); also when Next has moved the cursor onto an entry that is itself a
\* restart point.
C20_RestartIndexCoversCursor ==
  block.src.wf /\ trail.legal /\ Valid(iter) =>
    /\ iter.restart_index_ < iter.num_restarts_
    /\ GetRestartPoint(iter, iter.restart_index_) <= iter.current_
    /\ iter.current_ < RangeEnd(iter, iter.restart_index_)

\* the call just made has parsed the damaged entry of the block: SeekToLast
\* always does; SeekToFirst followed by a Next from every good entry does;
\* Seek does when every good key is below its target
ParsedDamaged ==
  \/ trail.op = "last"
  \/ trail.from = "first" /\ trail.done
  \/ /\ trail.op = "seek"
     /\ \A i \in 1..Len(Written) :
          IterCompare(iter, Written[i].key, trail.target) < 0

\* C21: when the entry a call parses has a header that cannot be decoded
\* before the restart array, or a shared length above the length of the
\* previous key, or key-suffix and value lengths whose sum is more than the
\* bytes left before the restart array, the call leaves the iterator invalid
\* with status Corruption, key and value cleared, and nothing at or after
\* the restart array has been read as entry data.
C21_BadEntryIsCorruption ==
  /\ block.src.bad \in {tail.bad : tail \in BadTails}
  /\ trail.legal
  /\ iter.kind \notin {"none", "error", "empty"}
  /\ ParsedDamaged
  => /\ iter.kind = "iter"
     /\ ~Valid(iter)
     /\ iter.status_ = "Corruption"
     /\ iter.key_ = << >>
     /\ iter.vlen = 0
     /\ iter.voff = Nowhere

\* C22: status() is latched.  Once the iterator's status is Corruption it is
\* Corruption after every further SeekToFirst, SeekToLast, Seek, Next and
\* Prev (only a new iterator starts again from OK); and the status goes from
\* OK to Corruption only in a call that fails to parse an entry, which leaves
\* the iterator as CorruptionError() does, on a block that is not well
\* formed when every call was made where its REQUIRES holds.
C22_StatusLatched ==
  [][ iter.kind \in {"iter", "error"} =>
        /\ iter.status_ = "Corruption" =>
             \/ iter'.status_ = "Corruption"
             \/ NewIterator
             \/ BlockDelete
        /\ iter.status_ = "OK" /\ iter'.status_ = "Corruption" =>
             /\ iter' = CorruptionError(iter)
             /\ trail'.legal => ~block.src.wf ]_vars

\* An iterator that failed to parse the damaged entry has been repositioned
\* by SeekToFirst on a good entry: it is valid and its status is still
\* Corruption.
C22_Witness ==
  /\ iter.kind = "iter"
  /\ trail.legal
  /\ iter.status_ = "Corruption"
  /\ trail.op = "first"
  /\ Valid(iter)

\* the entries of the well-formed block whose key is at or after target
AtOrAfter(target) ==
  {i \in 1..Len(Written) : IterCompare(iter, Written[i].key, target) >= 0}

\* C23: on a well-formed block (its keys strictly increasing), Seek(target),
\* whatever state the iterator was in, leaves it on the first entry in offset
\* order whose key is >= target, with that entry's key and value; when every
\* key is below target it leaves the iterator invalid, with status OK.
C23_SeekFirstAtOrAfter ==
  block.src.wf /\ iter.kind = "iter" /\ trail.op = "seek" =>
    IF AtOrAfter(trail.target) = {}
    THEN ~Valid(iter) /\ (trail.legal => iter.status_ = "OK")
    ELSE LET first == CHOOSE i \in AtOrAfter(trail.target) :
                        \A j \in AtOrAfter(trail.target) : i <= j
         IN  /\ Valid(iter)
             /\ Entry(iter) = Written[first]
             /\ iter.current_ = OffsetOf(first)
             /\ trail.legal => iter.status_ = "OK"

\* Seek to a key that lies between the second and the third key of a block
\* whose third entry begins the second restart range has landed on the
\* third entry.
C23_Witness ==
  /\ block.src.wf
  /\ trail.legal
  /\ trail.op = "seek"
  /\ trail.target = <<97, 99>>
  /\ Len(Written) = 3
  /\ block.src.restarts = {1, 3}
  /\ Valid(iter)
  /\ IterKey(iter) = <<98>>
  /\ iter.current_ = OffsetOf(3)

\* record i of the block of internal keys, as (user key, sequence, type)
RecordOf(i) == ParseInternalKey(Written[i].key, NoParsedKey).result

\* the records of user key k with a sequence number <= s
VisibleAt(k, s) ==
  {i \in 1..Len(Written) :
     RecordOf(i).user_key = k /\ ~U64Less(s, RecordOf(i).sequence)}

\* the records whose user key is greater than k
UserKeyAbove(k) ==
  {i \in 1..Len(Written) : Compare(RecordOf(i).user_key, k) > 0}

\* C24: on a block of internal keys sorted by the internal-key comparator,
\* Seek(encode(k, s, kValueTypeForSeek)) lands on the record of user key k
\* with the largest sequence number <= s, whatever its value type; when k has
\* no record with sequence number <= s it lands on the first entry whose user
\* key is greater than k (and is left invalid when there is none).
C24_SeekLatestVisible ==
  /\ block.src.wf
  /\ block.src.cmp = "internal"
  /\ iter.kind = "iter"
  /\ trail.legal
  /\ trail.op = "seek"
  => \A k \in SeekUserKeys, s \in SeekSequences :
       trail.target = SeekKey(k, s) =>
         IF VisibleAt(k, s) # {}
         THEN /\ Valid(iter)
              /\ \E i \in VisibleAt(k, s) :
                   /\ \A j \in VisibleAt(k, s) :
                        ~U64Less(RecordOf(i).sequence, RecordOf(j).sequence)
                   /\ Entry(iter) = Written[i]
         ELSE IF UserKeyAbove(k) # {}
         THEN /\ Valid(iter)
              /\ \E i \in UserKeyAbove(k) :
                   /\ \A j \in UserKeyAbove(k) : i <= j
                   /\ Entry(iter) = Written[i]
         ELSE ~Valid(iter) /\ iter.status_ = "OK"

\* On the block of ("a",5,PUT), ("a",3,DELETE), ("b",1,PUT), Seek for "a" at
\* sequence number 4 has landed on the deletion with sequence number 3.
C24_Witness ==
  /\ block.src.wf
  /\ block.src.cmp = "internal"
  /\ Len(Written) = 3
  /\ trail.legal
  /\ trail.op = "seek"
  /\ trail.target = SeekKey(<<97>>, U64(4))
  /\ Valid(iter)
  /\ IterKey(iter) = Written[2].key
  /\ RecordOf(2).type = kTypeDeletion

\* C25: after Prev, called on the first entry, has made the iterator
\* invalid, a Next leaves the iterator invalid.
C25_NextAfterPrevStaysInvalid ==
  [][ /\ block.src.wf
      /\ trail.legal
      /\ trail.op = "prev"
      /\ iter.kind = "iter"
      /\ ~Valid(iter)
      /\ \E ndebug \in BOOLEAN : IterNextInvalid(ndebug)
      => ~Valid(iter') ]_vars

\* C29: on a well-formed block, Prev called when the iterator is valid on
\* entry i > 0 (counted from 0), reached by any sequence of Seek,
\* SeekToFirst, SeekToLast, Next and Prev, leaves it valid on entry i - 1
\* with that entry's full key and value; called on entry 0 it leaves the
\* iterator invalid with status OK.  (Written is indexed from 1.)
C29_PrevStepsBackOne ==
  [][ block.src.wf /\ trail.legal /\ IterPrev =>
        \E i \in 1..Len(Written) :
          /\ iter.current_ = OffsetOf(i)
          /\ iter'.kind = "iter"
          /\ iter'.status_ = "OK"
          /\ i > 1 => /\ Valid(iter')
                      /\ iter'.current_ = OffsetOf(i - 1)
                      /\ Entry(iter') = Written[i - 1]
          /\ i = 1 => ~Valid(iter') ]_vars

\* Prev has stepped from the third entry of a block, itself a restart
\* point and reached by Seek, back onto the second entry, which is not one.
C29_Witness ==
  /\ block.src.wf
  /\ trail.legal
  /\ trail.op = "prev"
  /\ trail.from = "prev"
  /\ Len(Written) = 3
  /\ block.src.restarts = {1, 3}
  /\ Valid(iter)
  /\ iter.current_ = OffsetOf(2)
  /\ Entry(iter) = Written[2]

\* the lengths of header e, accepted by DecodeEntry, fit before limit when
\* added as unbounded integers.  The sum is (the high halves added) * 2^16 +
\* (the low halves added), and limit - p is below 2^16 in every block here:
\* the sum is at most limit - p exactly when the high halves are zero and
\* the low halves add up to at most limit - p
FitsBefore(e, limit) ==
  e.ok =>
    /\ e.non_shared[1] + e.value_length[1] = 0
    /\ e.non_shared[2] + e.value_length[2] <= limit - e.p

\* C30: DecodeEntry returns a non-NULL pointer p only if the true sum
\* non_shared + value_length, as unbounded integers, is at most limit - p,
\* for every pair of 32-bit lengths, those whose 32-bit sum wraps around
\* included: the key suffix and the value of an accepted entry lie inside
\* [p, limit).  Stated of every offset of the entry area of the block, with
\* the limit at the restart array as ParseNextKey passes it.
C30_AcceptedEntryInsideLimit ==
  \A p \in 0..block.restart_offset_ :
    FitsBefore(DecodeEntry(block.data_, p, block.restart_offset_),
               block.restart_offset_)

(***************************************************************************)
(* Properties of internal keys.                                            *)
(***************************************************************************)
\* C26: for every user key UK, sequence number SN < 2^56 and value type VT
\* in {kTypeDeletion, kTypeValue}, the encoding is UK followed by VT and the
\* seven low bytes of SN, least significant first, and parsing it succeeds
\* and gives back exactly (UK, SN, VT): no bit of SN is lost in the tag.
C26_EncodeParseRoundTrip ==
  /\ ksrc.encoded
  /\ ~U64Less(kMaxSequenceNumber, ksrc.key.sequence)
  => /\ ikey = ksrc.key.user_key \o <<ksrc.key.type>>
                 \o Reverse(SubSeq(ksrc.key.sequence, 2, 8))
     /\ parsed.done =>
          /\ parsed.ok
          /\ parsed.result = ksrc.key

\* The key ("ab", 2^56 - 1, kTypeDeletion) has been encoded and parsed back.
C26_Witness ==
  /\ ksrc.encoded
  /\ ksrc.key.user_key = <<97, 98>>
  /\ ksrc.key.sequence = kMaxSequenceNumber
  /\ ksrc.key.type = kTypeDeletion
  /\ parsed.done
  /\ parsed.ok
  /\ parsed.result = ksrc.key

\* C27: ParseInternalKey returns false exactly when its input has fewer than
\* 8 bytes or the low byte of its trailing 8-byte tag, which is the first of
\* the last eight bytes, is neither 0 nor 1; for every other input it returns
\* true with the user key input[0, len - 8).
C27_MalformedExactly ==
  parsed.done =>
    /\ ~parsed.ok <=> (Len(ikey) < 8 \/ ikey[Len(ikey) - 7] \notin {0, 1})
    /\ parsed.ok =>
         parsed.result.user_key = SubSeq(ikey, 1, Len(ikey) - 8)

\* A string of nine bytes whose tag has the low byte 2 has been refused.
C27_Witness ==
  /\ parsed.done
  /\ ~parsed.ok
  /\ ~ksrc.encoded
  /\ Len(ikey) = 9
  /\ ikey[2] = 2

\* key a's tag is above key b's as a uint64_t: a higher sequence number, or
\* the same one and a higher value type
TagAbove(a, b) ==
  \/ U64Less(b.sequence, a.sequence)
  \/ a.sequence = b.sequence /\ b.type < a.type

\* key a sorts before key b: its user key does under the user (bytewise)
\* comparator, or the user keys are equal and a's tag is above b's
SortsBefore(a, b) ==
  \/ Compare(a.user_key, b.user_key) < 0
  \/ a.user_key = b.user_key /\ TagAbove(a, b)

\* C28: for valid internal keys a and b, Compare(a, b) < 0 exactly when a's
\* user key is ordered before b's, or the user keys are equal and tag(a) >
\* tag(b) as unsigned 64-bit values; Compare is a strict total order (equal
\* keys compare 0, of two different keys exactly one is below the other, and
\* below is transitive); so ("a",5,PUT) < ("a",3,DELETE) < ("b",1,PUT).
C28_InternalKeyOrder ==
  bench.set =>
    /\ bench.ab < 0 <=> SortsBefore(bench.a, bench.b)
    /\ bench.a = bench.b <=> bench.ab = 0
    /\ bench.a # bench.b => ((bench.ab < 0) <=> (bench.ba > 0))
    /\ bench.a # bench.b => ((bench.ab < 0) # (bench.ba < 0))
    /\ bench.ab < 0 /\ bench.bc < 0 => bench.ac < 0
    /\ (/\ bench.a = [user_key |-> <<97>>, sequence |-> U64(5),
                      type |-> kTypeValue]
        /\ bench.b = [user_key |-> <<97>>, sequence |-> U64(3),
                      type |-> kTypeDeletion]
        /\ bench.c = [user_key |-> <<98>>, sequence |-> U64(1),
                      type |-> kTypeValue])
       => bench.ab < 0 /\ bench.bc < 0 /\ bench.ac < 0

\* The keys ("a",5,PUT), ("a",3,DELETE) and ("b",1,PUT) have been compared.
C28_Witness ==
  /\ bench.set
  /\ bench.a = [user_key |-> <<97>>, sequence |-> U64(5), type |-> kTypeValue]
  /\ bench.b = [user_key |-> <<97>>, sequence |-> U64(3),
                type |-> kTypeDeletion]
  /\ bench.c = [user_key |-> <<98>>, sequence |-> U64(1), type |-> kTypeValue]
  /\ bench.ab < 0
  /\ bench.bc < 0


(***************************************************************************)
(* Properties of the entry header decoder.                                  *)
(***************************************************************************)

\* three varint32 decoded one after another from p: shared, non_shared,
\* value_length, and the offset after them
ThreeVarints(data, p, limit) ==
  DecodeShared(data, limit, GetVarint32Ptr(data, p, limit))

\* the three bytes at p are each below 128
AllBelow128(data, p) ==
  data[p + 1] < 128 /\ data[p + 2] < 128 /\ data[p + 3] < 128

\* C31: for every entry header whose three fields are each below 128, the
\* three-byte fast path of DecodeEntry yields the same shared, non_shared
\* and value_length and the same returned pointer as decoding three
\* varint32 one after another; a header with a field of 128 or more takes
\* the varint path.  Stated of the header at every offset of the entry area
\* of the block that leaves three bytes before the restart array.
C31_FastPathIsThreeVarints ==
  \A p \in 0..(block.restart_offset_ - 3) :
    /\ DecodeHeader(block.data_, p, block.restart_offset_)
         = ThreeVarints(block.data_, p, block.restart_offset_)
    /\ DecodeEntry(block.data_, p, block.restart_offset_)
         = DecodeLimit(ThreeVarints(block.data_, p, block.restart_offset_),
                       block.restart_offset_)
    /\ AllBelow128(block.data_, p) =>
         /\ DecodeHeader(block.data_, p, block.restart_offset_).ok
         /\ DecodeHeader(block.data_, p, block.restart_offset_).p = p + 3

\* The iterator stands on an entry whose header took the fast path, in a
\* block that also holds a header with a five-byte varint field.
C31_Witness ==
  /\ block.src.bad = "wrap"
  /\ Valid(iter)
  /\ AllBelow128(block.data_, iter.current_)
  /\ \E p \in 0..(block.restart_offset_ - 3) :
       /\ ~AllBelow128(block.data_, p)
       /\ DecodeHeader(block.data_, p, block.restart_offset_).ok
       /\ DecodeHeader(block.data_, p, block.restart_offset_).p = p + 7

(***************************************************************************)
(* Further properties of the background scheduler.                         *)
(***************************************************************************)

\* C32: signalling the condition variable before the queue insert loses no
\* wake-up: in every interleaving of Schedule calls with the worker, the
\* worker is never blocked in the condition wait while the queue is
\* non-empty and the mutex is free.
C32_NoLostWakeup ==
  \A w \in Workers : bpc[w] = "wait" => queue_ = <<>> \/ mu_ # 0

\* A Schedule call has signalled the waiting worker, then inserted and
\* released the mutex: the worker has left the wait and the item is queued.
C32_Witness ==
  /\ \E w \in Workers : bpc[w] = "woken"
  /\ queue_ # <<>>
  /\ mu_ = 0
  /\ \A t \in SThreads : spc[t] = "idle"

(***************************************************************************)
(* Further properties of the block iterator.                               *)
(***************************************************************************)

\* C33: after a parse failure has set status Corruption the iterator stops
\* advancing: no later SeekToFirst, SeekToLast or Seek makes it valid
\* again, so no state has Valid() true and status() Corruption.  (Every
\* call so far was made where its REQUIRES holds.)
C33_NoValidAfterCorruption ==
  trail.legal /\ iter.kind = "iter" /\ iter.status_ = "Corruption" =>
    ~Valid(iter)

(***************************************************************************)
(* Further properties of the advisory file lock.                           *)
(***************************************************************************)

\* thread t is inside a LockFile call
InLockFile(t) ==
  lpc[t] \in {"l_insert", "l_close1", "l_fcntl", "l_close2", "l_remove", "ret"}

\* the IOError results of LockFile: open failed, the path string is
\* registered already, the OS lock was refused
LockErrors == {"IOError_open", "IOError_held", "IOError_lock"}

\* C34: when two threads of one process call LockFile on the same path
\* string concurrently, at most one of them obtains a lock handle and the
\* other returns IOError with a NULL handle, in every interleaving.  A call
\* about to return has a handle exactly when its result is OK.
C34_OneWinnerPerPathString ==
  \A t, u \in LThreads :
    /\ t # u
    /\ ProcOf(t) = ProcOf(u)
    /\ InLockFile(t)
    /\ InLockFile(u)
    /\ lname[t] = lname[u]
    => /\ llock[t] = NULL \/ llock[u] = NULL
       /\ lpc[t] = "ret" => (llock[t] = NULL <=> lres[t] \in LockErrors)
       /\ lpc[t] = "ret" /\ llock[u] # NULL =>
            llock[t] = NULL /\ lres[t] \in LockErrors

\* Both threads of process A are about to return from LockFile on one path
\* string: one with a handle, the other with IOError and NULL.
C34_Witness ==
  \E t, u \in LThreads :
    /\ t # u
    /\ ProcOf(t) = ProcOf(u)
    /\ lpc[t] = "ret"
    /\ lpc[u] = "ret"
    /\ lname[t] = lname[u]
    /\ llock[t] # NULL
    /\ llock[u] = NULL
    /\ lres[u] = "IOError_held"

(***************************************************************************)
(* Further properties of the random-access files.                          *)
(***************************************************************************)

\* the limit a Limiter was constructed with
InitialLimit(l) == IF l = "mmap_limit_" THEN MmapLimit ELSE FdLimit

\* the files that hold an allowance of Limiter l
LiveHolders(l) == IF l = "mmap_limit_" THEN Mapped ELSE LongLived

\* the calls that hold an allowance of Limiter l for the moment: a
\* NewRandomAccessFile between its successful mmap_limit_.Acquire() and the
\* construction of the file or the Release() of the failed attempt, and a
\* destructor that has not reached its Release() yet
Holding(l) ==
  {t \in Readers :
     \/ l = "mmap_limit_" /\ rth[t].pc \in {"map", "m_rel"}
     \/ rth[t].pc = "d_rel" /\ rth[t].lim = l}

\* C35: for each Limiter, in every reachable state the remaining allowance
\* is >= 0 and remaining allowance + number of live holders (mapped files,
\* or descriptor-based files with a long-lived descriptor) equals the
\* initial limit: every successful Acquire is matched by exactly one
\* Release, on file destruction or on a failed mmap attempt, and a failed
\* Acquire is never followed by a Release.  Inside a call the allowance it
\* has acquired and not yet handed to a file or released counts as held.
C35_LimiterAccounting ==
  \A l \in Limiters :
    /\ allowed_[l] >= 0
    /\ allowed_[l] <= InitialLimit(l)
    /\ allowed_[l] + Cardinality(LiveHolders(l)) + Cardinality(Holding(l))
         = InitialLimit(l)
    /\ (\A t \in Readers : rth[t].pc = "idle") =>
         allowed_[l] + Cardinality(LiveHolders(l)) = InitialLimit(l)

\* A failed mmap attempt is about to release its allowance while one file
\* keeps a long-lived descriptor and another, whose Acquire calls both
\* failed, opens on every Read.
C35_Witness ==
  /\ \E t \in Readers : rth[t].pc = "m_rel"
  /\ LongLived # {}
  /\ PerRead # {}

(***************************************************************************)
(* Termination of the block iterator's loops.                              *)
(***************************************************************************)

\* every successful parse of the chain of ParseNextKey() calls that starts
\* with result r ends strictly after the cursor it started at and not after
\* restarts_, and the chain ends within fuel parses
RECURSIVE Forward(_, _)
Forward(r, fuel) ==
  \/ ~r.ok
  \/ /\ fuel > 0
     /\ r.it.current_ < NextEntryOffset(r.it)
     /\ NextEntryOffset(r.it) <= r.it.restarts_
     /\ Forward(ParseNextKey(r.it), fuel - 1)

\* C36: SeekToFirst, SeekToLast, Seek, Next and Prev each terminate on every
\* block accepted by the Block constructor, blocks with malformed entries
\* or restart offsets included: every successful parse moves the cursor
\* strictly forward, so the parses that SeekToFirst, SeekToLast, Prev and
\* Seek chain from a restart point, and Next from the current entry, end
\* within restarts_ steps; and the restart binary search strictly shrinks
\* its interval, mid lying in (left, right].
C36_LoopsTerminate ==
  iter.kind = "iter" =>
    /\ \A index \in 0..(iter.num_restarts_ - 1) :
         Forward(ParseNextKey(SeekToRestartPoint(iter, index)),
                 iter.restarts_)
    /\ trail.legal /\ Valid(iter) =>
         Forward(ParseNextKey(iter), iter.restarts_)
    /\ \A left, right \in 0..(iter.num_restarts_ - 1) :
         left < right =>
           left < SeekMid(left, right) /\ SeekMid(left, right) <= right

\* Seek has run its binary search over a restart array that is out of
\* order and its linear scan to the end of the entries.
C36_Witness ==
  /\ block.src.bad = "restarts"
  /\ trail.op = "seek"
  /\ iter.kind = "iter"
  /\ GetRestartPoint(iter, 1) < GetRestartPoint(iter, 0)
  /\ ~Valid(iter)
  /\ iter.status_ = "OK"

(***************************************************************************)
(* Further properties of the memory-mapped file.                           *)
(***************************************************************************)

\* C37: PosixMmapReadableFile::Read returns OK only when the requested
\* range [offset, offset + n) lies entirely inside the mapped region
\* [0, length_), for every offset and n of the word, those whose sum
\* exceeds the largest word value included; in every other case it returns
\* an error with an empty result.  (offset + n is the unbounded sum here.)
C37_MmapReadInsideMapping ==
  \A t \in Readers :
    rth[t].pc = "r_ret" /\ raf[rth[t].obj].kind = "mmap" =>
      IF rth[t].offset + rth[t].n <= raf[rth[t].obj].length_
      THEN rth[t].s = "OK"
      ELSE rth[t].s = "IOError" /\ rth[t].r = EmptySlice

(***************************************************************************)
(* The lock set across failed calls.                                       *)
(***************************************************************************)

\* the path strings process p has a holder for: a live handle, a LockFile
\* call between its Insert and its handle or its Remove, an UnlockFile call
\* before its Remove
Registered(p) ==
  {h.name_ : h \in handles[p]}
    \cup {lname[u] : u \in {v \in LThreads :
                              /\ ProcOf(v) = p
                              /\ lpc[v] \in {"l_fcntl", "l_close2",
                                             "l_remove", "u_remove"}}}

\* C38: a LockFile call that fails leaves the process-local lock set as it
\* was before the call: when the OS lock is refused because another process
\* holds it, the path is removed again from the set, so a later LockFile on
\* that path succeeds once the other process has released; and UnlockFile
\* removes the path from the set even when the OS unlock call fails.  The
\* set holds exactly the path strings with a holder, so a call that has
\* failed or an UnlockFile past its Remove, whatever fcntl said, has left
\* nothing in it; a LockFile whose path is not in the set goes on to fcntl,
\* and its fcntl, made while no other process holds the lock, gives it a
\* handle and OK.
C38_FailedCallsLeaveNoRegistration ==
  /\ [](\A p \in Procs : locked_files_[p] = Registered(p))
  /\ [][\A t \in LThreads :
          /\ LockInsert(t) /\ lname[t] \notin locked_files_[ProcOf(t)]
               => lpc'[t] = "l_fcntl"
          /\ LockFcntl(t) /\ oslock[FileOf(lname[t])] \in {NoProc, ProcOf(t)}
               => llock'[t] # NULL /\ lres'[t] = "OK" /\ lpc'[t] = "ret"]_vars

\* A LockFile call refused by the OS, because the other process holds the
\* lock, is about to return IOError and its path is out of the set again.
C38_Witness ==
  \E t \in LThreads :
    /\ lpc[t] = "ret"
    /\ lres[t] = "IOError_lock"
    /\ lname[t] \notin locked_files_[ProcOf(t)]
    /\ oslock[FileOf(lname[t])] \notin {NoProc, ProcOf(t)}

====
